---------------------------- MODULE Spec2Model ----------------------------
(***************************************************************************)
(* A state-machine model of read_digits (src/readdigits.py, src/gui.py):   *)
(* the Corners geometry, the segmenter, the seven-segment decoder, the     *)
(* decimal-point splitter, the marker-based geometry and the value         *)
(* clamping of the batch reader.                                           *)
(*                                                                         *)
(* Each component has its own variables, its own initial condition and its *)
(* own specification; the variables of the other components stay at their  *)
(* idle values.  Images are sequences of rows, a row a sequence of pixel   *)
(* intensities; Python's 0-based half-open slices are kept as they are in  *)
(* the source (operators PyIdx, RegionSum, RegionCnt).                     *)
(***************************************************************************)
EXTENDS Integers, Sequences, FiniteSets, TLC

VARIABLES
    \* ---- geometry (class Corners)
    corners,      \* the caller's quadrilateral object, as the calls leave it
    corners0,     \* the eight values it was constructed with
    cur,          \* the quadrilateral most recently returned to the caller
    gret,         \* outcome of the most recent geometry call
    nops,         \* number of geometry calls made so far
    fga,          \* the running find_good_angle call
    \* ---- decoder (read_char)
    char_img,     \* the glyph image handed to read_char
    max_height,   \* the reference height handed to read_char
    rc,           \* what read_char returned
    \* ---- segmentation (__search_char, get_digit, separate_dots)
    im,           \* the frame handed to get_digit: "none" or "frame"
    th,           \* the binarized region, as the profile of each of its columns
    seg,          \* outcome of the segmentation call
    \* ---- values (the min/max loop of App.read_alldata)
    val,          \* the settings min, max, min_num, max_num of the window
    rec,          \* one record x of results: its text and its value
    \* ---- markers (Corners._from_aruco_markers, trim_aruco_markers)
    aret,         \* outcome of the marker call, with the detections it made
    \* ---- rotation (rotate_image)
    rot,          \* the frame and angle handed to rotate_image, and its outcome
    \* ---- video frames (get_videoimg)
    vid,          \* the handles and offset handed to get_videoimg, and its outcome
    \* ---- batch (App.read_alldata)
    bat,          \* the inputs, the position and the results of the running batch
    \* ---- assemble_bars
    bars,         \* the arguments, the pending merges and the result of the call
    \* ---- Display (corners kept as ratios of the frame)
    disp          \* the frames, the corners given, corners_ratio and the corners read back

geomVars == <<corners, corners0, cur, gret, nops, fga>>

decVars == <<char_img, max_height, rc>>

segVars == <<im, th, seg>>

valVars == <<val, rec>>

arucoVars == <<aret>>

rotVars == <<rot>>

vidVars == <<vid>>

batVars == <<bat>>

barsVars == <<bars>>

dispVars == <<disp>>

vars == <<geomVars, decVars, segVars, valVars, arucoVars, rotVars, vidVars, batVars, barsVars, dispVars>>

\* the variables the actions of one component leave alone
othersGeom == <<decVars, segVars, valVars, arucoVars, rotVars, vidVars, batVars, barsVars, dispVars>>

othersDec == <<geomVars, segVars, valVars, arucoVars, rotVars, vidVars, batVars, barsVars, dispVars>>

othersSeg == <<geomVars, decVars, valVars, arucoVars, rotVars, vidVars, batVars, barsVars, dispVars>>

othersVal == <<geomVars, decVars, segVars, arucoVars, rotVars, vidVars, batVars, barsVars, dispVars>>

othersAruco == <<geomVars, decVars, segVars, valVars, rotVars, vidVars, batVars, barsVars, dispVars>>

othersRot == <<geomVars, decVars, segVars, valVars, arucoVars, vidVars, batVars, barsVars, dispVars>>

othersVid == <<geomVars, decVars, segVars, valVars, arucoVars, rotVars, batVars, barsVars, dispVars>>

othersBat == <<geomVars, decVars, segVars, valVars, arucoVars, rotVars, vidVars, barsVars, dispVars>>

othersBars == <<geomVars, decVars, segVars, valVars, arucoVars, rotVars, vidVars, batVars, dispVars>>

othersDisp == <<geomVars, decVars, segVars, valVars, arucoVars, rotVars, vidVars, batVars, barsVars>>

-----------------------------------------------------------------------------
(* Bounds of the model *)

\* coordinates of the quadrilaterals are multiples of CoordStep ...
CoordStep == 10
\* ... up to MaxCoordSteps * CoordStep
MaxCoordSteps == 2
\* offset of the top-right / bottom-left corners of the initial quadrilateral
Skew == 3
\* number of geometry calls in one behaviour
MaxOps == 2
\* glyph images handed to read_char have up to MaxGlyphH rows ...
MaxGlyphH == 9
\* ... and up to MaxGlyphW columns
MaxGlyphW == 6
\* binarized regions have SegH rows ...
SegH == 23
\* ... and up to MaxWidth columns ...
MaxWidth == 23
\* ... in up to MaxBlocks blocks
MaxBlocks == 3
\* a block is 1, 4 or WideBlock columns wide
WideBlock == 16
\* rows lit at the top of a column of profile "top"
BarRows == 4
\* rows lit at the bottom of a column of profile "dot"
DotRows == 3
\* the decoded text of a record has up to MaxTxtLen characters
MaxTxtLen == 3
\* marker ids 0..MaxMarkerId can show up in a frame
MaxMarkerId == 4
\* side of a marker in the frame, and distance between markers
MarkerSize == 7
MarkerPitch == 30

\* frames handed to rotate_image have up to MaxRotH rows ...
MaxRotH == 2
\* ... and up to MaxRotW columns
MaxRotW == 3

\* get_videoimg is handed up to MaxCaps video handles ...
MaxCaps == 2
\* ... of up to MaxFrameCount frames each ...
MaxFrameCount == 2
\* ... and an offset of up to MaxSecTicks eighths of a second
MaxSecTicks == 20

\* the image folder of a batch holds up to MaxFiles files
MaxFiles == 2
\* the frames of a video batch are up to MaxSpacing seconds apart
MaxSpacing == 2

\* assemble_bars is given up to MaxGlyphs glyphs
MaxGlyphs == 3

\* a frame has up to MaxSide rows and up to MaxSide columns
MaxSide == 4

-----------------------------------------------------------------------------
(* Python numerics *)

Abs(x) == IF x < 0 THEN -x ELSE x

Sign(x) == IF x > 0 THEN 1 ELSE IF x < 0 THEN -1 ELSE 0

Max2(a, b) == IF a >= b THEN a ELSE b

Min2(a, b) == IF a <= b THEN a ELSE b

\* Python's round() of the rational n/d (d > 0): nearest integer, ties to even
PyRound(n, d) ==
    LET fl == n \div d
        r2 == 2 * (n - fl * d)
    IN  IF r2 < d THEN fl
        ELSE IF r2 > d THEN fl + 1
        ELSE IF fl % 2 = 0 THEN fl ELSE fl + 1

\* round(sqrt(n)) for an integer n >= 0 (np.linalg.norm of an integer vector,
\* then round): the r with (2r-1)^2 <= 4n < (2r+1)^2
RoundSqrt(n) ==
    CHOOSE r \in 0..(n + 1) :
        /\ (2 * r - 1) * (2 * r - 1) <= 4 * n \/ r = 0
        /\ 4 * n < (2 * r + 1) * (2 * r + 1)

\* math.tan(math.radians(a)) * 10^6, rounded, for 0 <= a <= 40 degrees
TanTable ==
    <<17455, 34921, 52408, 69927, 87489, 105104, 122785, 140541, 158384,
      176327, 194380, 212557, 230868, 249328, 267949, 286745, 305731, 324920,
      344328, 363970, 383864, 404026, 424475, 445229, 466308, 487733, 509525,
      531709, 554309, 577350, 600861, 624869, 649408, 674509, 700208, 726543,
      753554, 781286, 809784, 839100>>

TanMicro(a) == IF a = 0 THEN 0 ELSE IF a > 0 THEN TanTable[a] ELSE -TanTable[-a]

\* round(b + s * d * tan(a deg)) for integers b, d >= 0 and s in {1, -1}
\* (d * tan(a) is never within 10^-6 * d of a half-integer for the d used)
RoundShift(b, s, d, a) == b + ((s * d * TanMicro(a) + 500000) \div 1000000)

-----------------------------------------------------------------------------
(* class Corners *)

CornerKeys == {"TLw", "TLh", "TRw", "TRh", "BLw", "BLh", "BRw", "BRh"}

Corners(TLw, TLh, TRw, TRh, BLw, BLh, BRw, BRh) ==
    [TLw |-> TLw, TLh |-> TLh, TRw |-> TRw, TRh |-> TRh,
     BLw |-> BLw, BLh |-> BLh, BRw |-> BRw, BRh |-> BRh]

NoCorners == [none |-> TRUE]

\* what a call leaves behind: the argument object after the call (self), the
\* returned value (out) and the exception raised, if any (exc)
Returned(c, v) == [self |-> c, out |-> v, exc |-> "none"]

Raised(c, e) == [self |-> c, out |-> NoCorners, exc |-> e]

\* Corners._from_2corners
From2Corners(TLw, TLh, BRw, BRh) == Corners(TLw, TLh, BRw, TLh, TLw, BRh, BRw, BRh)

\* Corners._get_size: the rounded lengths of the top and the left edge
GetSize(c) ==
    <<RoundSqrt((c.TRw - c.TLw) * (c.TRw - c.TLw) + (c.TRh - c.TLh) * (c.TRh - c.TLh)),
      RoundSqrt((c.BLw - c.TLw) * (c.BLw - c.TLw) + (c.BLh - c.TLh) * (c.BLh - c.TLh))>>

\* _correct_angles as it would be if angle 0 kept the quadrilateral's own
\* top-right and bottom-left corners
CorrectAnglesKeepsOwn(c, angle) ==
    IF angle = 0
    THEN Returned(c, c)
    ELSE LET yoko == Sign(c.BRw - c.TLw)
             tate == Abs(c.BRh - c.TLh)
         IN  IF yoko = 0
             THEN Raised(c, "ValueError")
             ELSE Returned(c, Corners(c.TLw, c.TLh,
                                      RoundShift(c.BRw, yoko, tate, angle), c.TLh,
                                      RoundShift(c.TLw, -yoko, tate, angle), c.BRh,
                                      c.BRw, c.BRh))

\* _correct_angles as it would be if it moved the bottom-left corner the
\* same way as the top-right one
CorrectAnglesSameWay(c, angle) ==
    IF angle = 0
    THEN Returned(c, Corners(c.TLw, c.TLh, c.BRw, c.TLh, c.TLw, c.BRh, c.BRw, c.BRh))
    ELSE LET yoko == Sign(c.BRw - c.TLw)
             tate == Abs(c.BRh - c.TLh)
         IN  IF yoko = 0
             THEN Raised(c, "ValueError")
             ELSE Returned(c, Corners(c.TLw, c.TLh,
                                      RoundShift(c.BRw, yoko, tate, angle), c.TLh,
                                      RoundShift(c.TLw, yoko, tate, angle), c.BRh,
                                      c.BRw, c.BRh))

\* Corners._correct_angles.  TR = (BRw, TLh) and BL = (TLw, BRh) lie on the
\* rows of TL and BR, so the unit vectors are (+-1, 0) and both edge lengths
\* are |BRh - TLh|; when BRw = TLw the unit vectors are 0/0 = nan and
\* round(nan) raises ValueError.
CorrectAngles(c, angle) ==
    IF angle = 0
    THEN Returned(c, Corners(c.TLw, c.TLh, c.BRw, c.TLh, c.TLw, c.BRh, c.BRw, c.BRh))
    ELSE LET yoko == Sign(c.BRw - c.TLw)
             tate == Abs(c.BRh - c.TLh)
         IN  IF yoko = 0
             THEN Raised(c, "ValueError")
             ELSE Returned(c, Corners(c.TLw, c.TLh,
                                      RoundShift(c.BRw, yoko, tate, angle), c.TLh,
                                      RoundShift(c.TLw, -yoko, tate, angle), c.BRh,
                                      c.BRw, c.BRh))

\* Corners._calc_transform_matrix: the matrix is fixed by the four source
\* corners and the target rectangle, which is all that is kept of it
CalcTransformMatrix(c) ==
    Returned(c, [orig |-> <<<<c.TLw, c.TLh>>, <<c.TRw, c.TRh>>,
                           <<c.BRw, c.BRh>>, <<c.BLw, c.BLh>>>>,
                 size |-> GetSize(c)])

\* _mod as it would be if it changed the coordinate of its argument in place
ModInPlace(c, key, mod) ==
    LET modw == PyRound(mod * GetSize(c)[1], 100)
    IN  Returned([c EXCEPT ![key] = @ + modw], [c EXCEPT ![key] = @ + modw])

\* _mod as it would be if it scaled the percentage by the height
ModByHeight(c, key, mod) ==
    LET modw == PyRound(mod * GetSize(c)[2], 100)
    IN  Returned(c, [c EXCEPT ![key] = @ + modw])

\* Corners._mod: one coordinate moved by round(mod/100 * width)
Mod(c, key, mod) ==
    LET modw == PyRound(mod * GetSize(c)[1], 100)
    IN  Returned(c, [c EXCEPT ![key] = @ + modw])

\* transform (cv2.warpPerspective): the result has the target size, or the
\* size of the source image when the target size is empty
Transform(imgshape, trans) ==
    IF trans.size[1] > 0 /\ trans.size[2] > 0
    THEN <<trans.size[2], trans.size[1]>>
    ELSE imgshape

\* Corners.trim_image
TrimImage(c, imgshape) ==
    LET m == CalcTransformMatrix(c)
    IN  [self |-> m.self, out |-> Transform(imgshape, m.out), exc |-> "none"]

-----------------------------------------------------------------------------
(* Idle values of the components that a specification does not run *)

NoImage == [h |-> 0, w |-> 0, px |-> <<>>]

NotRead == [ch |-> "?", seg |-> <<>>]

DecIdle ==
    /\ char_img = NoImage
    /\ max_height = 0
    /\ rc = NotRead

NotCalled == [op |-> "-", st |-> "none", chars |-> <<>>, coords |-> <<>>]

SegIdle ==
    /\ im = "-"
    /\ th = <<>>
    /\ seg = NotCalled

Unset == [kind |-> "unset", v |-> 0]

ValIdle ==
    /\ val = [min |-> FALSE, max |-> FALSE, min_num |-> 0, max_num |-> 0]
    /\ rec = [txt |-> <<>>, value |-> Unset]

NoCall == [op |-> "-", st |-> "none", out |-> NoCorners, shape |-> <<>>, seen |-> <<>>]

ArucoIdle == aret = NoCall

NotRotated == [img |-> NoImage, angle |-> 0, st |-> "none", out |-> NoImage]

RotIdle == rot = NotRotated

NoVideoCall == [caps |-> <<>>, sec |-> 0, st |-> "idle", out |-> <<>>, log |-> <<>>]

VidIdle == vid = NoVideoCall

NoBatch ==
    [mode |-> "-", files |-> 0, caps |-> <<>>, spacing |-> 0, aruco |-> FALSE, th |-> <<>>,
     pc |-> "idle", i |-> 0, progress |-> 0, im |-> "-", loaded |-> 0, results |-> <<>>,
     at |-> "-", st |-> "-"]

BatIdle == bat = NoBatch

NoBars ==
    [pc |-> "idle", res |-> <<>>, segments |-> <<>>, coordinates |-> <<>>,
     coordinates0 |-> <<>>, pops |-> <<>>, pops0 |-> <<>>, merges |-> <<>>,
     st |-> "-", out |-> <<>>]

BarsIdle == bars = NoBars

NoDisplay ==
    [pc |-> "idle", shape |-> <<>>, shape2 |-> <<>>, corners |-> NoCorners,
     corners_ratio |-> NoCorners, out |-> NoCorners]

DispIdle == disp = NoDisplay

-----------------------------------------------------------------------------
(* The geometry calls a caller makes on its quadrilateral *)

\* angle_range of find_good_angle: range(-11, 21)
AngleRange == -11..20

\* the check list of find_good_angle: range(3,9,3) then range(-3,-9,-3)
ShiftCheck == <<3, 6, -3, -6>>

\* percentages passed to _mod: those of the check list, and 0
ModPercents == {ShiftCheck[i] : i \in 1..Len(ShiftCheck)} \cup {0}

\* shape (rows, columns) of the frame the quadrilateral lies in
FrameShape == <<(MaxCoordSteps + 1) * CoordStep, (MaxCoordSteps + 1) * CoordStep>>

Coords == {k * CoordStep : k \in 0..MaxCoordSteps}

GRet(op, st, src, arg, angle, key, mod, shape) ==
    [op |-> op, st |-> st, src |-> src, arg |-> arg, angle |-> angle,
     key |-> key, mod |-> mod, shape |-> shape,
     prev0 |-> (gret.op = "_correct_angles" /\ gret.angle = 0 /\ gret.st = "value")]

FgaIdle ==
    [pc |-> "idle", type |-> "-", angle |-> 0, k |-> 0,
     res |-> NoCorners, res_dot |-> NoCorners,
     zeros |-> <<>>, coarse |-> 0, tries |-> <<>>, fine |-> 0, decoded |-> <<>>]

GeomIdle ==
    /\ corners = NoCorners
    /\ corners0 = NoCorners
    /\ cur = NoCorners
    /\ gret = [op |-> "-", st |-> "none", src |-> "-", arg |-> NoCorners, angle |-> 0,
               key |-> "-", mod |-> 0, shape |-> <<>>, prev0 |-> FALSE]
    /\ nops = 0
    /\ fga = FgaIdle

\* the caller's quadrilateral: top-left fixed, bottom-right anywhere on the
\* grid (zero or negative width and height included), top-right and
\* bottom-left as _from_2corners gives them or offset by Skew
InitGeom ==
    /\ \E brw \in Coords, brh \in Coords, sk \in {0, Skew} :
          corners = Corners(CoordStep, CoordStep, brw + sk, CoordStep,
                            CoordStep, brh + sk, brw, brh)
    /\ corners0 = corners
    /\ cur = NoCorners
    /\ gret = [op |-> "-", st |-> "none", src |-> "-", arg |-> NoCorners, angle |-> 0,
               key |-> "-", mod |-> 0, shape |-> <<>>, prev0 |-> FALSE]
    /\ nops = 0
    /\ fga = FgaIdle
    /\ DecIdle
    /\ SegIdle
    /\ ValIdle
    /\ ArucoIdle
    /\ RotIdle
    /\ VidIdle
    /\ BatIdle
    /\ BarsIdle
    /\ DispIdle

\* the object a call is made on: the caller's quadrilateral, or the one the
\* previous call returned
CanCall(src) ==
    /\ fga.pc = "idle"
    /\ nops < MaxOps
    /\ src = "cur" => cur # NoCorners

ArgOf(src) == IF src = "corners" THEN corners ELSE cur

\* the argument object after the call
Leave(src, r) ==
    corners' = IF src = "corners" THEN r.self ELSE corners

Status(r) == IF r.exc = "none" THEN "value" ELSE "raised"

\* Corners._from_2corners(TLw, TLh, BRw, BRh) with the caller's two corners
DoFrom2Corners ==
    /\ CanCall("corners")
    /\ cur' = From2Corners(corners.TLw, corners.TLh, corners.BRw, corners.BRh)
    /\ gret' = GRet("_from_2corners", "value", "corners", corners, 0, "-", 0, <<>>)
    /\ nops' = nops + 1
    /\ UNCHANGED <<corners, corners0, fga>>
    /\ UNCHANGED othersGeom

\* Corners._correct_angles(c, angle) on the caller's quadrilateral, or with
\* angle 0 on a returned one
DoCorrectAngles ==
    \E src \in {"corners", "cur"}, angle \in AngleRange :
        /\ CanCall(src)
        /\ src = "cur" => angle = 0
        /\ LET r == CorrectAngles(ArgOf(src), angle)
           IN  /\ Leave(src, r)
               /\ cur' = r.out
               /\ gret' = GRet("_correct_angles", Status(r), src, ArgOf(src),
                               angle, "-", 0, <<>>)
        /\ nops' = nops + 1
        /\ UNCHANGED <<corners0, fga>>
        /\ UNCHANGED othersGeom

\* c._calc_transform_matrix()
DoCalcTransformMatrix ==
    \E src \in {"corners", "cur"} :
        /\ CanCall(src)
        /\ LET r == CalcTransformMatrix(ArgOf(src))
           IN  /\ Leave(src, r)
               /\ gret' = GRet("_calc_transform_matrix", Status(r), src, ArgOf(src),
                               0, "-", 0, r.out.size)
        /\ nops' = nops + 1
        /\ UNCHANGED <<corners0, cur, fga>>
        /\ UNCHANGED othersGeom

\* c.trim_image(img)
DoTrimImage ==
    \E src \in {"corners", "cur"} :
        /\ CanCall(src)
        /\ LET r == TrimImage(ArgOf(src), FrameShape)
           IN  /\ Leave(src, r)
               /\ gret' = GRet("trim_image", Status(r), src, ArgOf(src),
                               0, "-", 0, r.out)
        /\ nops' = nops + 1
        /\ UNCHANGED <<corners0, cur, fga>>
        /\ UNCHANGED othersGeom

\* Corners._mod(c, key, mod): any coordinate of the caller's quadrilateral,
\* the top-right width of a returned one (as find_good_angle calls it)
DoMod ==
    \E src \in {"corners", "cur"}, key \in CornerKeys, mod \in ModPercents :
        /\ CanCall(src)
        /\ src = "cur" => key = "TRw"
        /\ LET r == Mod(ArgOf(src), key, mod)
           IN  /\ Leave(src, r)
               /\ cur' = r.out
               /\ gret' = GRet("_mod", Status(r), src, ArgOf(src), 0, key, mod, <<>>)
        /\ nops' = nops + 1
        /\ UNCHANGED <<corners0, fga>>
        /\ UNCHANGED othersGeom

-----------------------------------------------------------------------------
(* find_good_angle(original_img, corners, type), step by step.  What the    *)
(* frame shows (blank-column counts, line angles, decoded characters) is    *)
(* chosen freely; the calls made on the quadrilaterals are the source's.    *)

\* the coarse loop from angle r on: dd = _correct_angles(corners, r) and
\* dd.trim_image(original_img) for every angle of the range, in order
RECURSIVE CoarseLoop(_, _)
CoarseLoop(c, r) ==
    IF r > 20 THEN Returned(c, NoCorners)
    ELSE LET dd == CorrectAngles(c, r)
         IN  IF dd.exc # "none" THEN dd
             ELSE CoarseLoop(dd.self, r + 1)

\* the blank-column counts the frame gives over the angle range: the most at
\* the angles of best, fewer elsewhere
ZeroProfile(best) ==
    [r \in AngleRange |-> IF r \in best THEN 2 ELSE IF r % 2 = 0 THEN 1 ELSE 0]

\* one best angle, two adjacent ones, two or three apart, or all of them
ZeroProfiles ==
    {ZeroProfile({r}) : r \in {-11, -4, 0, 9, 20}}
        \cup {ZeroProfile({r, r + 1}) : r \in {-11, 2, 7, 19}}
        \cup {ZeroProfile({-11, 20}), ZeroProfile({-11, -10, 20}), ZeroProfile({7, 8, 10}),
              ZeroProfile(AngleRange)}

\* zip(angle_range, zero_num_list): the loop from angle r on appends the
\* count of every angle of the range, in order
RECURSIVE ZeroNumList(_, _)
ZeroNumList(zeros, r) ==
    IF r > 20 THEN <<>>
    ELSE <<[angle |-> r, zeros_t |-> zeros[r]]>> \o ZeroNumList(zeros, r + 1)

\* max(zero_num_list)
RECURSIVE MaxZeros(_, _)
MaxZeros(zl, k) ==
    IF k > Len(zl) THEN 0 ELSE Max2(zl[k].zeros_t, MaxZeros(zl, k + 1))

\* sum and number of the angles of zl, from position k on, whose count is mx
RECURSIVE ZeroAngles(_, _, _)
ZeroAngles(zl, k, mx) ==
    IF k > Len(zl) THEN [s |-> 0, n |-> 0]
    ELSE LET rest == ZeroAngles(zl, k + 1, mx)
         IN  IF zl[k].zeros_t = mx
             THEN [s |-> rest.s + zl[k].angle, n |-> rest.n + 1]
             ELSE rest

\* the coarse angle as it would be if the first of the best angles were taken
CoarseAngleFirst(zl) ==
    zl[CHOOSE k \in 1..Len(zl) :
          /\ zl[k].zeros_t = MaxZeros(zl, 1)
          /\ \A j \in 1..(k - 1) : zl[j].zeros_t # MaxZeros(zl, 1)].angle

\* angle_bg = round(np.average(zero_angles))
CoarseAngle(zl) ==
    LET za == ZeroAngles(zl, 1, MaxZeros(zl, 1))
    IN  PyRound(za.s, za.n)

\* what cv2.HoughLinesP returns at one attempt, as the angles from vertical
\* (degrees) of its lines: None, or lines none of which, some of which or all
\* of which are within 15 degrees of vertical
Lines(angles) == [none |-> FALSE, angles |-> angles]

LineFinds ==
    {[none |-> TRUE, angles |-> <<>>], Lines(<<15>>), Lines(<<-15, 90>>),
     Lines(<<-14>>), Lines(<<2, 5>>), Lines(<<2, 3, 20>>), Lines(<<14>>)}

\* minlinedev of the three attempts
MinLineDevs == <<4, 6, 8>>

\* angles_vertical, and the sum of its members
Vertical(angles) == SelectSeq(angles, LAMBDA a : Abs(a) < 15)

RECURSIVE SumSeq(_, _)
SumSeq(q, k) == IF k > Len(q) THEN 0 ELSE q[k] + SumSeq(q, k + 1)

\* one attempt of the line search, as it is recorded
Try(tatesize, k, lines) ==
    [minLineLength |-> tatesize \div MinLineDevs[k], lines |-> lines]

\* the line search as it would be if it stopped at the first attempt that
\* finds any line
RECURSIVE LineLoopAnyLine(_, _, _)
LineLoopAnyLine(finds, tatesize, k) ==
    IF k > Len(MinLineDevs) THEN [angle_lines |-> 0, tries |-> <<>>]
    ELSE LET lines == finds[k]
             angles_vertical == Vertical(lines.angles)
         IN  IF ~lines.none /\ Len(lines.angles) > 0
             THEN [angle_lines |-> IF Len(angles_vertical) > 0
                                   THEN PyRound(SumSeq(angles_vertical, 1), Len(angles_vertical))
                                   ELSE 0,
                   tries |-> <<Try(tatesize, k, lines)>>]
             ELSE LET rest == LineLoopAnyLine(finds, tatesize, k + 1)
                  IN  [rest EXCEPT !.tries = <<Try(tatesize, k, lines)>> \o @]

\* for minlinedev in (4, 6, 8): the attempts from the k-th on, finds[k] being
\* what the k-th attempt would return
RECURSIVE LineLoop(_, _, _)
LineLoop(finds, tatesize, k) ==
    IF k > Len(MinLineDevs) THEN [angle_lines |-> 0, tries |-> <<>>]
    ELSE LET lines == finds[k]
             angles_vertical == Vertical(lines.angles)
         IN  IF ~lines.none /\ Len(lines.angles) > 0 /\ Len(angles_vertical) > 0
             THEN [angle_lines |-> PyRound(SumSeq(angles_vertical, 1), Len(angles_vertical)),
                   tries |-> <<Try(tatesize, k, lines)>>]
             ELSE LET rest == LineLoop(finds, tatesize, k + 1)
                  IN  [rest EXCEPT !.tries = <<Try(tatesize, k, lines)>> \o @]

\* float() and the numbers it yields, in units of 1 / Scale
\* ch.isdigit()
IsDigit(ch) == ch \in {"0", "1", "2", "3", "4", "5", "6", "7", "8", "9"}

RECURSIVE Pow10(_)
Pow10(n) == IF n = 0 THEN 1 ELSE 10 * Pow10(n - 1)

Scale == Pow10(MaxTxtLen)

NaN == [kind |-> "nan", v |-> 0]

Num(v) == [kind |-> "num", v |-> v]

DigitChars == <<"0", "1", "2", "3", "4", "5", "6", "7", "8", "9">>

DigitVal(c) == (CHOOSE i \in 1..10 : DigitChars[i] = c) - 1

\* the digits of body from position i on, read as one integer after acc
RECURSIVE Mantissa(_, _, _)
Mantissa(body, i, acc) ==
    IF i > Len(body) THEN acc
    ELSE IF body[i] = "." THEN Mantissa(body, i + 1, acc)
    ELSE Mantissa(body, i + 1, 10 * acc + DigitVal(body[i]))

\* float(txt) for a text of digits, '.', '+', '-' and '*': an optional sign,
\* then digits with at most one '.', and at least one digit; NaN stands for
\* the ValueError that the except clause turns into math.nan
Float(txt) ==
    LET signed == txt # <<>> /\ txt[1] \in {"+", "-"}
        body == IF signed THEN Tail(txt) ELSE txt
        dots == {i \in 1..Len(body) : body[i] = "."}
        ok == /\ \A i \in 1..Len(body) : IsDigit(body[i]) \/ body[i] = "."
              /\ Cardinality(dots) <= 1
              /\ \E i \in 1..Len(body) : IsDigit(body[i])
        frac == IF dots = {} THEN 0 ELSE Len(body) - (CHOOSE i \in dots : TRUE)
        mag == Mantissa(body, 1, 0) * Pow10(MaxTxtLen - frac)
    IN  IF ok THEN Num(IF signed /\ txt[1] = "-" THEN -mag ELSE mag) ELSE NaN

\* the outcome of a decode: it raises (no glyph: max() of an
\* empty list), or the characters parse as a number containing '.', or not
DecodeOutcomes == {"raise", "numdot", "other"}

\* what get_digit finds at a geometry: no glyph at all, or the list chars of
\* the decoded glyphs
NoGlyph == [glyphs |-> FALSE, chars |-> <<>>]

Shown(chars) == [glyphs |-> TRUE, chars |-> chars]

FgaShown ==
    {NoGlyph, Shown(<<"1", ".", "5">>), Shown(<<"1", "5">>), Shown(<<".">>),
     Shown(<<"1", "*">>), Shown(<<"5", ".">>)}

InChars(c, chars) == \E i \in 1..Len(chars) : chars[i] = c

\* lines 459-465 and 473-479: get_digit raises, or float(''.join(chars))
\* succeeds and '.' is in chars, or anything else
Decode(shown) ==
    IF ~shown.glyphs THEN "raise"
    ELSE IF Float(shown.chars).kind = "num" /\ InChars(".", shown.chars) THEN "numdot"
    ELSE "other"

\* lines 480-482 with the shifted geometry returned whether set or not
ShiftResultAlways(corners_res, res_dot) == res_dot

\* lines 480-482: res_dot when it is set, else corners_res
ShiftResult(corners_res, res_dot) ==
    IF res_dot # NoCorners THEN res_dot ELSE corners_res

FgaReturn(st, c, angle) ==
    /\ cur' = c
    /\ gret' = GRet("find_good_angle", st, "corners", corners, angle, "-", 0, <<>>)

\* lines 421-434: the coarse loop, angle_bg and corners_bg
FgaCoarse ==
    \E type \in {"number", "string"}, zeros \in ZeroProfiles :
        /\ CanCall("corners")
        /\ nops = 0
        /\ nops' = nops + 1
        /\ LET loop == CoarseLoop(corners, -11)
               zl == ZeroNumList(zeros, -11)
               angle_bg == CoarseAngle(zl)
               bg == CorrectAngles(loop.self, angle_bg)
           IN  IF loop.exc # "none"
               THEN /\ corners' = loop.self
                    /\ fga' = [FgaIdle EXCEPT !.pc = "done", !.type = type]
                    /\ FgaReturn("raised", NoCorners, 0)
               ELSE /\ corners' = bg.self
                    /\ fga' = [FgaIdle EXCEPT !.pc = "fine", !.type = type,
                                              !.angle = angle_bg, !.res = bg.out,
                                              !.zeros = zl, !.coarse = angle_bg]
                    /\ UNCHANGED <<cur, gret>>
        /\ UNCHANGED corners0
        /\ UNCHANGED othersGeom

\* lines 436-457: angle_lines from the line search, corners_res
FgaFine ==
    \E finds \in [1..Len(MinLineDevs) -> LineFinds] :
        /\ fga.pc = "fine"
        /\ LET search == LineLoop(finds, GetSize(fga.res)[2], 1)
               angle_lines == search.angle_lines
               angle == fga.angle - angle_lines
               r == CorrectAngles(corners, angle)
           IN  /\ corners' = r.self
               /\ IF fga.type = "number"
                  THEN /\ fga' = [fga EXCEPT !.pc = "decode", !.angle = angle, !.res = r.out,
                                              !.zeros = <<>>, !.tries = search.tries,
                                              !.fine = angle_lines]
                       /\ UNCHANGED <<cur, gret>>
                  ELSE /\ fga' = [fga EXCEPT !.pc = "done", !.angle = angle, !.res = r.out,
                                              !.zeros = <<>>, !.tries = search.tries,
                                              !.fine = angle_lines]
                       /\ FgaReturn("value", r.out, angle)
        /\ UNCHANGED <<corners0, nops>>
        /\ UNCHANGED othersGeom

\* lines 459-468: the decode at corners_res
FgaDecode ==
    \E shown \in FgaShown :
        /\ fga.pc = "decode"
        /\ LET found == Decode(shown) IN
           CASE found = "raise" ->
                  /\ fga' = [fga EXCEPT !.pc = "done", !.tries = <<>>, !.decoded = <<found>>]
                  /\ FgaReturn("raised", NoCorners, fga.angle)
             [] found = "numdot" ->
                  /\ fga' = [fga EXCEPT !.pc = "done", !.tries = <<>>, !.decoded = <<found>>]
                  /\ FgaReturn("value", fga.res, fga.angle)
             [] found = "other" ->
                  /\ fga' = [fga EXCEPT !.pc = "shift", !.k = 1, !.tries = <<>>,
                                        !.decoded = <<found>>]
                  /\ UNCHANGED <<cur, gret>>
        /\ UNCHANGED <<corners, corners0, nops>>
        /\ UNCHANGED othersGeom

\* lines 470-479: one pass of the loop over the check list
FgaShift ==
    \E shown \in FgaShown :
        /\ fga.pc = "shift"
        /\ fga.k <= Len(ShiftCheck)
        /\ LET c2 == Mod(fga.res, "TRw", ShiftCheck[fga.k])
               found == Decode(shown)
           IN  CASE found = "raise" ->
                      /\ fga' = [fga EXCEPT !.pc = "done", !.decoded = Append(@, found)]
                      /\ FgaReturn("raised", NoCorners, fga.angle)
                 [] found = "numdot" ->
                      /\ fga' = [fga EXCEPT !.k = @ + 1, !.res_dot = c2.out,
                                            !.decoded = Append(@, found)]
                      /\ UNCHANGED <<cur, gret>>
                 [] found = "other" ->
                      /\ fga' = [fga EXCEPT !.k = @ + 1, !.decoded = Append(@, found)]
                      /\ UNCHANGED <<cur, gret>>
        /\ UNCHANGED <<corners, corners0, nops>>
        /\ UNCHANGED othersGeom

\* lines 480-482: the return after the loop
FgaEnd ==
    /\ fga.pc = "shift"
    /\ fga.k > Len(ShiftCheck)
    /\ fga' = [fga EXCEPT !.pc = "done"]
    /\ FgaReturn("value", ShiftResult(fga.res, fga.res_dot), fga.angle)
    /\ UNCHANGED <<corners, corners0, nops>>
    /\ UNCHANGED othersGeom

NextGeom ==
    \/ DoFrom2Corners
    \/ DoCorrectAngles
    \/ DoCalcTransformMatrix
    \/ DoTrimImage
    \/ DoMod
    \/ FgaCoarse
    \/ FgaFine
    \/ FgaDecode
    \/ FgaShift
    \/ FgaEnd

SpecGeom == InitGeom /\ [][NextGeom]_vars

-----------------------------------------------------------------------------
(* Claims about the geometry *)

\* C2: _correct_angles(q, 0) keeps q's top-left and bottom-right, has
\* top-right = (q.BRw, q.TLh) and bottom-left = (q.TLw, q.BRh), and applied to
\* its own result returns that result again.
C2_CorrectAnglesZero ==
    (gret.op = "_correct_angles" /\ gret.angle = 0) =>
        /\ gret.st = "value"
        /\ cur.TLw = gret.arg.TLw /\ cur.TLh = gret.arg.TLh
        /\ cur.BRw = gret.arg.BRw /\ cur.BRh = gret.arg.BRh
        /\ cur.TRw = gret.arg.BRw /\ cur.TRh = gret.arg.TLh
        /\ cur.BLw = gret.arg.TLw /\ cur.BLh = gret.arg.BRh
        /\ (gret.src = "cur" /\ gret.prev0) => cur = gret.arg

\* a second _correct_angles(., 0), applied to the result of a first one that
\* was given a quadrilateral with offset top-right and bottom-left corners
C2_Witness ==
    /\ gret.op = "_correct_angles" /\ gret.angle = 0
    /\ gret.src = "cur" /\ gret.prev0
    /\ corners0.TRw # corners0.BRw
    /\ cur # corners0

\* C3: no geometry call changes the quadrilateral it is given: whatever
\* calls were made, the caller's quadrilateral has the values it was built with.
C3_InputUnchanged == corners = corners0

\* the caller's quadrilateral after two calls, the last one a _mod on it
\* that returned a different quadrilateral
C3_Witness ==
    /\ nops = MaxOps
    /\ gret.op = "_mod" /\ gret.src = "corners" /\ gret.st = "value"
    /\ cur # gret.arg

\* d is round(mod/100 * w): the nearest integer, the even one on a tie
C17_Rounded(d, mod, w) ==
    /\ 2 * Abs(100 * d - mod * w) <= 100
    /\ 2 * Abs(100 * d - mod * w) = 100 => d % 2 = 0

\* C17: the quadrilateral _mod(q, key, percent) returns has coordinate key
\* equal to q's plus round(percent/100 * width(q)) and its other seven
\* coordinates equal to q's; with percent 0 it equals q.
C17_OneCoordinate ==
    (gret.op = "_mod" /\ gret.st = "value") =>
        LET q == gret.arg
        IN  /\ C17_Rounded(cur[gret.key] - q[gret.key], gret.mod, GetSize(q)[1])
            /\ \A k \in CornerKeys \ {gret.key} : cur[k] = q[k]
            /\ gret.mod = 0 => cur = q

\* a _mod by a nonzero percentage that moved the bottom-left row coordinate
\* of a quadrilateral whose height differs from its width
C17_Witness ==
    /\ gret.op = "_mod" /\ gret.st = "value"
    /\ gret.key = "BLh" /\ gret.mod # 0
    /\ cur.BLh # gret.arg.BLh
    /\ GetSize(gret.arg)[1] # GetSize(gret.arg)[2]

\* the angles of the range whose blank-column count is the largest one
C22_Best ==
    LET count(r) == (CHOOSE e \in {fga.zeros[k] : k \in 1..Len(fga.zeros)} : e.angle = r).zeros_t
    IN  {r \in -11..20 : \A q \in -11..20 : count(r) >= count(q)}

RECURSIVE C22_Sum(_)
C22_Sum(S) == IF S = {} THEN 0 ELSE LET r == CHOOSE r \in S : TRUE IN r + C22_Sum(S \ {r})

\* C22: the coarse angle of find_good_angle is the rounded average of the
\* angles of -11..20 whose blank-column count equals the largest count of the
\* range; every angle of the range is evaluated exactly once, and the coarse
\* angle lies in [-11, 20].
C22_CoarseAngle ==
    fga.pc = "fine" =>
        LET n == Cardinality(C22_Best)
            sum == C22_Sum(C22_Best)
        IN  /\ \A r \in -11..20 :
                   Cardinality({k \in 1..Len(fga.zeros) : fga.zeros[k].angle = r}) = 1
            /\ Len(fga.zeros) = Cardinality(-11..20)
            /\ 2 * Abs(n * fga.coarse - sum) <= n
            /\ 2 * Abs(n * fga.coarse - sum) = n => fga.coarse % 2 = 0
            /\ fga.coarse \in -11..20
            /\ fga.res = CorrectAngles(corners, fga.coarse).out

\* the two best angles are 7 and 8 and the coarse angle is 8, the even
\* neighbour of their average
C22_Witness ==
    /\ fga.pc = "fine"
    /\ C22_Best = {7, 8}
    /\ fga.coarse = 8

\* the attempt found at least one line within 15 degrees of vertical
C23_Found(try) ==
    \E i \in 1..Len(try.lines.angles) : Abs(try.lines.angles[i]) < 15

\* the line search of find_good_angle has just ended
C23_Searched == fga.tries # <<>>

Degenerate(c) == c.TLw = c.BRw \/ c.TLh = c.BRh

C10_DegenerateNoRaise ==
    (gret.op \in {"_correct_angles", "trim_image"} /\ Degenerate(gret.arg)) =>
        gret.st = "value"

-----------------------------------------------------------------------------
(* Images (numpy arrays) *)

\* where index i of a Python slice falls on an axis of length n
PyIdx(i, n) == IF i < 0 THEN Max2(i + n, 0) ELSE Min2(i, n)

RECURSIVE RowSum(_, _, _)
RowSum(row, a, b) == IF a > b THEN 0 ELSE row[a] + RowSum(row, a + 1, b)

RECURSIVE RegionSum(_, _, _, _, _)
RegionSum(px, ra, rb, ca, cb) ==
    IF ra > rb \/ ca > cb THEN 0
    ELSE RowSum(px[ra], ca, cb) + RegionSum(px, ra + 1, rb, ca, cb)

\* np.average(img[r0:r1, c0:c1]) as the pair (sum, count); the average of an
\* empty slice is nan, which is the pair with count 0
Average(img, r0, r1, c0, c1) ==
    LET R0 == PyIdx(r0, img.h)
        R1 == PyIdx(r1, img.h)
        C0 == PyIdx(c0, img.w)
        C1 == PyIdx(c1, img.w)
    IN  [s |-> RegionSum(img.px, R0 + 1, R1, C0 + 1, C1),
         n |-> Max2(R1 - R0, 0) * Max2(C1 - C0, 0)]

Number(k) == [s |-> k, n |-> 1]

\* a > b on floats: False when either is nan
Greater(a, b) == a.n > 0 /\ b.n > 0 /\ a.s * b.n > b.s * a.n

\* (a + b) / 2
HalfSum(a, b) == [s |-> a.s * b.n + b.s * a.n, n |-> 2 * a.n * b.n]

\* Python's max(a, b): b only if b > a
PyMax(a, b) == IF Greater(b, a) THEN b ELSE a

\* img[r0:r1, c0:c1]
Crop(img, r0, r1, c0, c1) ==
    LET R0 == PyIdx(r0, img.h)
        R1 == Max2(PyIdx(r1, img.h), R0)
        C0 == PyIdx(c0, img.w)
        C1 == Max2(PyIdx(c1, img.w), C0)
    IN  [h |-> R1 - R0, w |-> C1 - C0,
         px |-> [r \in 1..(R1 - R0) |-> [c \in 1..(C1 - C0) |-> img.px[R0 + r][C0 + c]]]]

-----------------------------------------------------------------------------
(* The decoder: DIGITS_LOOKUP and read_char *)

DIGITS_LOOKUP ==
    (<<1, 1, 1, 0, 1, 1, 1>> :> "0") @@
    (<<0, 0, 1, 0, 0, 1, 0>> :> "1") @@
    (<<1, 0, 1, 1, 1, 0, 1>> :> "2") @@
    (<<1, 0, 1, 1, 0, 1, 1>> :> "3") @@
    (<<0, 1, 1, 1, 0, 1, 0>> :> "4") @@
    (<<1, 1, 0, 1, 0, 1, 1>> :> "5") @@
    (<<0, 1, 0, 1, 1, 1, 1>> :> "6") @@
    (<<1, 1, 0, 1, 1, 1, 1>> :> "6") @@
    (<<1, 0, 1, 0, 0, 1, 0>> :> "7") @@
    (<<1, 1, 1, 0, 0, 1, 0>> :> "7") @@
    (<<1, 1, 1, 1, 1, 1, 1>> :> "8") @@
    (<<1, 1, 1, 1, 0, 1, 1>> :> "9") @@
    (<<1, 1, 1, 1, 0, 1, 0>> :> "9") @@
    (<<0, 0, 0, 1, 0, 0, 0>> :> "-")

\* None, where read_char returns no segment vector
None == <<>>

\* thresh_darkest
ThreshDarkest == 20

\* the threshold as it would be without the floor thresh_darkest
DarkestNoFloor(img, upp, dwn, mid) ==
    PyMax(Number(0),
          HalfSum(Average(img, upp[1], upp[2], mid[1], mid[2]),
                  Average(img, dwn[1], dwn[2], mid[1], mid[2])))

\* the darkness threshold of read_char: max(thresh_darkest, mean of the two
\* samples at the vertical centre line)
Darkest(img, upp, dwn, mid) ==
    PyMax(Number(ThreshDarkest),
          HalfSum(Average(img, upp[1], upp[2], mid[1], mid[2]),
                  Average(img, dwn[1], dwn[2], mid[1], mid[2])))

\* the seven zone averages of read_char, in the order of the segments
Zones(img, upp, dwn, mid) ==
    <<Average(img, 0, img.h \div 3, mid[1], mid[2]),
      Average(img, upp[1], upp[2], 0, img.w \div 3),
      Average(img, upp[1], upp[2], (2 * img.w) \div 3, -1),
      Average(img, img.h \div 3, (2 * img.h) \div 3, mid[1], mid[2]),
      Average(img, dwn[1], dwn[2], 0, img.w \div 3),
      Average(img, dwn[1], dwn[2], (2 * img.w) \div 3, -1),
      Average(img, (2 * img.h) \div 3, img.h, mid[1], mid[2])>>

\* the plus-sign test: every corner sample darker than every cross sample
PlusTest(img) ==
    LET h1 == img.h \div 3
        h2 == (2 * img.h) \div 3
        w1 == img.w \div 5
        w2 == (2 * img.w) \div 5
        w3 == (3 * img.w) \div 5
        w4 == (4 * img.w) \div 5
        darks == <<Average(img, 0, h1, 0, w1),
                   Average(img, 0, h1, w4, img.w),
                   Average(img, h2, img.h, 0, w1),
                   Average(img, h2, img.h, w4, img.w)>>
        segments == <<Average(img, 0, h1, w2, w3),
                      Average(img, h1, h2, 0, img.w),
                      Average(img, h2, img.h, w2, w3)>>
    IN  \A i \in 1..3 : \A j \in 1..4 : Greater(segments[i], darks[j])

\* wid, hei: half the extent of the samples
SampleWid(img) == IF img.w > 20 THEN img.w \div 20 ELSE 1

SampleHei(img) == IF img.h > 20 THEN img.h \div 20 ELSE 1

\* mid, upp, dwn: the column range at the centre, the row ranges at 1/4 and 3/4
Mid(img) == <<img.w \div 2 - SampleWid(img), img.w \div 2 + SampleWid(img)>>

Upp(img) == <<img.h \div 4 - SampleHei(img), img.h \div 4 + SampleHei(img)>>

Dwn(img) == <<(3 * img.h) \div 4 - SampleHei(img), (3 * img.h) \div 4 + SampleHei(img)>>

\* the test aspect_rate <= 0.4
SquatOrEqual(Sheight, Swidth) == 5 * Sheight <= 2 * Swidth

\* aspect_rate < 0.4
Squat(Sheight, Swidth) == 5 * Sheight < 2 * Swidth

\* the test aspect_rate > 4
TallStrict(Sheight, Swidth) == Sheight > 4 * Swidth

\* aspect_rate >= 4
Tall(Sheight, Swidth) == Sheight >= 4 * Swidth

\* read_char(char_img, max_height): the character and the segment vector.
\* aspect_rate = Sheight / Swidth is compared by cross-multiplication.
ReadChar(img, mh) ==
    LET Sheight == img.h
        Swidth == img.w
        mid == Mid(img)
        upp == Upp(img)
        dwn == Dwn(img)
        darkest == Darkest(img, upp, dwn, mid)
        segments == Zones(img, upp, dwn, mid)
        t == [i \in 1..7 |-> IF Greater(segments[i], darkest) THEN 1 ELSE 0]
        full ==
            IF Tall(Sheight, Swidth)
            THEN [ch |-> "1", seg |-> <<0, 0, 1, 0, 0, 1, 0>>]
            ELSE IF 10 * Sheight > 11 * Swidth /\ Sheight < 4 * Swidth
                 THEN IF t \in DOMAIN DIGITS_LOOKUP
                      THEN [ch |-> DIGITS_LOOKUP[t], seg |-> t]
                      ELSE [ch |-> "*", seg |-> t]
                 ELSE [ch |-> "", seg |-> None]
    IN  IF Sheight * 5 < mh
        THEN IF Squat(Sheight, Swidth)
             THEN [ch |-> "-", seg |-> None]
             ELSE [ch |-> ".", seg |-> None]
        ELSE IF Sheight * 18 < mh * 10
             THEN IF 5 * Sheight > 2 * Swidth /\ Sheight < 3 * Swidth
                  THEN IF PlusTest(img)
                       THEN [ch |-> "+", seg |-> None]
                       ELSE full
                  ELSE [ch |-> "", seg |-> None]
             ELSE full

-----------------------------------------------------------------------------
(* read_char on synthetic glyphs *)

\* pixel levels of a lit segment
LitLevels == {40, 255}

\* whether pixel (r, c), 0-based, of an H x W glyph lies on segment i of the
\* seven-segment layout (bars one pixel thick, the right bars two)
InSegment(i, r, c, H, W) ==
    CASE i = 1 -> r = 0
      [] i = 2 -> c = 0 /\ r < H \div 2
      [] i = 3 -> c >= W - 2 /\ r < H \div 2
      [] i = 4 -> r = H \div 2
      [] i = 5 -> c = 0 /\ r >= H \div 2
      [] i = 6 -> c >= W - 2 /\ r >= H \div 2
      [] i = 7 -> r = H - 1

\* the glyph that shows the segments on, at level lit on a black background
Render(H, W, on, lit) ==
    [h |-> H, w |-> W,
     px |-> [r \in 1..H |-> [c \in 1..W |->
                IF \E i \in 1..7 : on[i] = 1 /\ InSegment(i, r - 1, c - 1, H, W)
                THEN lit ELSE 0]]]

\* a plus sign: the middle rows and the middle columns are lit
PlusSign(H, W, lit) ==
    [h |-> H, w |-> W,
     px |-> [r \in 1..H |-> [c \in 1..W |->
                IF \/ (H \div 3 <= r - 1 /\ r - 1 < (2 * H) \div 3)
                   \/ ((2 * W) \div 5 <= c - 1 /\ c - 1 < (3 * W) \div 5)
                THEN lit ELSE 0]]]

\* reference heights for a glyph of height H: the glyph is the tallest, is
\* at and just past the full-size limit, at and just past the 1/5 limit
RefHeights(H) == {H, (9 * H) \div 5, (9 * H) \div 5 + 1, 5 * H, 5 * H + 1}

InitDec ==
    /\ \E H \in 1..MaxGlyphH, W \in 1..MaxGlyphW, on \in [1..7 -> {0, 1}],
          lit \in LitLevels :
          /\ char_img \in {Render(H, W, on, lit), PlusSign(H, W, lit)}
          /\ max_height \in RefHeights(H)
    /\ rc = NotRead
    /\ GeomIdle
    /\ SegIdle
    /\ ValIdle
    /\ ArucoIdle
    /\ RotIdle
    /\ VidIdle
    /\ BatIdle
    /\ BarsIdle
    /\ DispIdle

DoReadChar ==
    /\ char_img # NoImage
    /\ rc = NotRead
    /\ rc' = ReadChar(char_img, max_height)
    /\ UNCHANGED <<char_img, max_height>>
    /\ UNCHANGED othersDec

NextDec == DoReadChar

SpecDec == InitDec /\ [][NextDec]_vars

-----------------------------------------------------------------------------
(* Claims about the decoder *)

\* the documented decoding of the segment vectors
C1_Documented ==
    {<<<<1, 1, 1, 0, 1, 1, 1>>, "0">>, <<<<0, 0, 1, 0, 0, 1, 0>>, "1">>,
     <<<<1, 0, 1, 1, 1, 0, 1>>, "2">>, <<<<1, 0, 1, 1, 0, 1, 1>>, "3">>,
     <<<<0, 1, 1, 1, 0, 1, 0>>, "4">>, <<<<1, 1, 0, 1, 0, 1, 1>>, "5">>,
     <<<<0, 1, 0, 1, 1, 1, 1>>, "6">>, <<<<1, 1, 0, 1, 1, 1, 1>>, "6">>,
     <<<<1, 0, 1, 0, 0, 1, 0>>, "7">>, <<<<1, 1, 1, 0, 0, 1, 0>>, "7">>,
     <<<<1, 1, 1, 1, 1, 1, 1>>, "8">>, <<<<1, 1, 1, 1, 0, 1, 1>>, "9">>,
     <<<<1, 1, 1, 1, 0, 1, 0>>, "9">>, <<<<0, 0, 0, 1, 0, 0, 0>>, "-">>}

\* zone average z is strictly above 20 and strictly above the mean of the
\* two centre samples c1, c2 (a sample over an empty slice counts for nothing)
C1_On(z, c1, c2) ==
    /\ z.n > 0
    /\ z.s > 20 * z.n
    /\ (c1.n > 0 /\ c2.n > 0) =>
           2 * z.s * c1.n * c2.n > z.n * (c1.s * c2.n + c2.s * c1.n)

C1_Bits(img) ==
    LET z == Zones(img, Upp(img), Dwn(img), Mid(img))
        c1 == Average(img, Upp(img)[1], Upp(img)[2], Mid(img)[1], Mid(img)[2])
        c2 == Average(img, Dwn(img)[1], Dwn(img)[2], Mid(img)[1], Mid(img)[2])
    IN  [i \in 1..7 |-> IF C1_On(z[i], c1, c2) THEN 1 ELSE 0]

\* a full-size glyph (height * 1.8 >= max_height) whose aspect ratio
\* height / width is strictly between 1.1 and 4
C1_Case ==
    /\ rc # NotRead
    /\ char_img.h * 18 >= max_height * 10
    /\ 10 * char_img.h > 11 * char_img.w
    /\ char_img.h < 4 * char_img.w

\* C1: for a full-size glyph of aspect ratio in (1.1, 4), read_char returns
\* the vector t whose bit i is 1 exactly when zone i's average is strictly
\* above max(20, mean of the two centre samples), with the documented
\* character when t is one of the fourteen documented vectors and '*' otherwise.
C1_Lookup ==
    C1_Case =>
        LET t == C1_Bits(char_img)
        IN  /\ rc.seg = t
            /\ \A e \in C1_Documented : t = e[1] => rc.ch = e[2]
            /\ (\A e \in C1_Documented : t # e[1]) => rc.ch = "*"

\* a full-size glyph read as '0' from the vector (1,1,1,0,1,1,1)
C1_Witness ==
    /\ C1_Case
    /\ rc = [ch |-> "0", seg |-> <<1, 1, 1, 0, 1, 1, 1>>]

\* a glyph taller than max_height / 1.8 has been read
C21_FullSize == rc # NotRead /\ 18 * char_img.h > 10 * max_height

\* C21: for a full-size glyph read_char returns ('1', (0,0,1,0,0,1,0)) when
\* height / width >= 4, whatever the pixels, and ('', None) when
\* height / width <= 1.1; the table decides only strictly between 1.1 and 4.
C21_AspectClasses ==
    C21_FullSize =>
        /\ char_img.h >= 4 * char_img.w =>
               rc = [ch |-> "1", seg |-> <<0, 0, 1, 0, 0, 1, 0>>]
        /\ 10 * char_img.h <= 11 * char_img.w => rc = [ch |-> "", seg |-> None]
        /\ (rc.seg # None /\ rc.seg = C1_Bits(char_img) /\ rc.seg # <<0, 0, 1, 0, 0, 1, 0>>) =>
               (10 * char_img.h > 11 * char_img.w /\ char_img.h < 4 * char_img.w)

\* a full-size glyph of aspect ratio exactly 4, two columns wide, with lit
\* pixels, has been read as '1'
C21_Witness ==
    /\ C21_FullSize
    /\ char_img.h = 4 * char_img.w /\ char_img.w = 2
    /\ \E r \in 1..char_img.h : char_img.px[r][1] > 0
    /\ rc = [ch |-> "1", seg |-> <<0, 0, 1, 0, 0, 1, 0>>]

\* what C19 says of a short glyph: '-' when height / width < 0.4, else '.'
C19_Short ==
    IF 10 * char_img.h < 4 * char_img.w
    THEN rc = [ch |-> "-", seg |-> None]
    ELSE rc = [ch |-> ".", seg |-> None]

\* C19 as stated: a glyph whose height is at most 1/5 of the reference height,
\* the height reference/5 included, is read as '-' when its aspect ratio is
\* below 0.4 and as '.' otherwise, with no segment vector.
C19_AtMostFifth ==
    (rc # NotRead /\ 5 * char_img.h <= max_height) => C19_Short

\* C19 amended: a glyph whose height is strictly below 1/5 of the reference
\* height is read as '-' when its aspect ratio is below 0.4 and as '.'
\* otherwise, with no segment vector.
C19_BelowFifth ==
    (rc # NotRead /\ 5 * char_img.h < max_height) => C19_Short

\* a short glyph of aspect ratio exactly 0.4 has been read as '.'
C19_Witness ==
    /\ rc = [ch |-> ".", seg |-> None]
    /\ 5 * char_img.h < max_height
    /\ 5 * char_img.h = 2 * char_img.w

\* the four corner averages and the three cross averages of the plus-sign
\* test, as (sum, count) pairs
C20_Corners ==
    LET h == char_img.h
        w == char_img.w
    IN  {Average(char_img, 0, h \div 3, 0, w \div 5),
         Average(char_img, 0, h \div 3, (4 * w) \div 5, w),
         Average(char_img, (2 * h) \div 3, h, 0, w \div 5),
         Average(char_img, (2 * h) \div 3, h, (4 * w) \div 5, w)}

C20_Cross ==
    LET h == char_img.h
        w == char_img.w
    IN  {Average(char_img, 0, h \div 3, (2 * w) \div 5, (3 * w) \div 5),
         Average(char_img, h \div 3, (2 * h) \div 3, 0, w),
         Average(char_img, (2 * h) \div 3, h, (2 * w) \div 5, (3 * w) \div 5)}

\* C20: a glyph whose height lies between 1/5 and 1/1.8 of the reference
\* height is read as '+' when all four corner averages are below all three
\* cross averages and as the empty string, with no segment vector, in every
\* other case; never as a digit or '*'.
C20_PlusOrEmpty ==
    (rc # NotRead /\ 5 * char_img.h > max_height /\ 18 * char_img.h < 10 * max_height) =>
        IF \A d \in C20_Corners : \A c \in C20_Cross :
               d.n > 0 /\ c.n > 0 /\ d.s * c.n < c.s * d.n
        THEN rc = [ch |-> "+", seg |-> None]
        ELSE rc = [ch |-> "", seg |-> None]

-----------------------------------------------------------------------------
(* Segmentation: __nonzerolist, __cut_zeros, __search_char, get_digit,
   separate_dots.  Coordinates are Python's: 0-based, end exclusive. *)

\* np.sum(img, axis=0) and np.sum(img, axis=1)
RECURSIVE ColSum(_, _, _)
ColSum(img, c, r) == IF r > img.h THEN 0 ELSE img.px[r][c] + ColSum(img, c, r + 1)

RECURSIVE SumAxis0From(_, _)
SumAxis0From(img, c) ==
    IF c > img.w THEN <<>> ELSE <<ColSum(img, c, 1)>> \o SumAxis0From(img, c + 1)

SumAxis0(img) == SumAxis0From(img, 1)

RECURSIVE SumAxis1From(_, _)
SumAxis1From(img, r) ==
    IF r > img.h THEN <<>>
    ELSE <<RowSum(img.px[r], 1, img.w)>> \o SumAxis1From(img, r + 1)

SumAxis1(img) == SumAxis1From(img, 1)

\* __nonzerolist(in_list): the loop from index i (0-based) on, with the
\* values of start_ and the list a built so far
RECURSIVE NonZeroLoop(_, _, _, _)
NonZeroLoop(l, i, start, a) ==
    IF i >= Len(l) THEN a
    ELSE IF l[i + 1] > 0
         THEN IF i > 0 /\ l[i] = 0 THEN NonZeroLoop(l, i + 1, i, a)
              ELSE IF i = Len(l) - 1 THEN NonZeroLoop(l, i + 1, start, Append(a, <<start, i>>))
              ELSE NonZeroLoop(l, i + 1, start, a)
         ELSE IF i = 0 THEN NonZeroLoop(l, i + 1, start, a)
              ELSE IF l[i] > 0 THEN NonZeroLoop(l, i + 1, start, Append(a, <<start, i>>))
              ELSE NonZeroLoop(l, i + 1, start, a)

NonZeroList(l) == NonZeroLoop(l, 0, 0, <<>>)

\* __cut_zeros on a list: index of the first nonzero entry, and one past the
\* index of the last one; (0, 0) when there is none
RECURSIVE FirstNonZero(_, _)
FirstNonZero(l, i) ==
    IF i > Len(l) THEN 0 ELSE IF l[i] > 0 THEN i - 1 ELSE FirstNonZero(l, i + 1)

RECURSIVE LastNonZero(_, _)
LastNonZero(l, i) ==
    IF i < 1 THEN 0 ELSE IF l[i] > 0 THEN i ELSE LastNonZero(l, i - 1)

CutZerosList(l) == <<FirstNonZero(l, 1), LastNonZero(l, Len(l))>>

\* __cut_zeros(x_array, dim=2)
CutZeros(img) == CutZerosList(SumAxis1(img))

\* coor_temp of __search_char: one (row0, row1, col0, col1) per column range
RECURSIVE CandidatesFrom(_, _, _)
CandidatesFrom(img, segsy, k) ==
    IF k > Len(segsy) THEN <<>>
    ELSE LET x == CutZeros(Crop(img, 0, img.h, segsy[k][1], segsy[k][2]))
         IN  <<<<x[1], x[2], segsy[k][1], segsy[k][2]>>>>
                 \o CandidatesFrom(img, segsy, k + 1)

Candidates(img) == CandidatesFrom(img, NonZeroList(SumAxis0(img)), 1)

\* shape of img[c[0]:c[1], c[2]:c[3]]
ShapeH(c) == Max2(c[2] - c[1], 0)

ShapeW(c) == Max2(c[4] - c[3], 0)

\* max([min(x.shape) for x in segs_temp])
RECURSIVE MaxMinShape(_, _)
MaxMinShape(cs, k) ==
    IF k > Len(cs) THEN 0
    ELSE Max2(Min2(ShapeH(cs[k]), ShapeW(cs[k])), MaxMinShape(cs, k + 1))

\* the size test on the height alone
BigEnoughInHeight(c, m) == 10 * ShapeH(c) > m

\* s.shape[0] > min_size and s.shape[1] > min_size, with min_size = m / 10
BigEnough(c, m) == 10 * ShapeH(c) > m /\ 10 * ShapeW(c) > m

\* the filter putting each survivor in front of the earlier ones
RECURSIVE FilterPrepending(_, _, _)
FilterPrepending(cs, k, m) ==
    IF k > Len(cs) THEN <<>>
    ELSE FilterPrepending(cs, k + 1, m) \o (IF BigEnough(cs[k], m) THEN <<cs[k]>> ELSE <<>>)

\* [c for s,c in zip(segs_temp,coor_temp) if ...], from candidate k on
RECURSIVE Filter(_, _, _)
Filter(cs, k, m) ==
    IF k > Len(cs) THEN <<>>
    ELSE (IF BigEnough(cs[k], m) THEN <<cs[k]>> ELSE <<>>) \o Filter(cs, k + 1, m)

\* __search_char(img): the coordinates; the glyph images are the slices
\* img[c[0]:c[1], c[2]:c[3]]
SearchChar(img) ==
    LET cs == Candidates(img)
    IN  IF Len(cs) = 0 THEN <<>> ELSE Filter(cs, 1, MaxMinShape(cs, 1))

Glyph(img, c) == Crop(img, c[1], c[2], c[3], c[4])

\* max([x[1]-x[0] for x in coordinates]), for a non-empty list
RECURSIVE MaxHeight(_, _)
MaxHeight(cs, k) ==
    IF k > Len(cs) THEN 0 ELSE Max2(cs[k][2] - cs[k][1], MaxHeight(cs, k + 1))

Value(op, chars, coords) == [op |-> op, st |-> "value", chars |-> chars, coords |-> coords]

Raise(op, e) == [op |-> op, st |-> e, chars |-> <<>>, coords |-> <<>>]

\* get_digit(im, corners), with th the binarized trimmed region
GetDigit(frame, img) ==
    IF frame = "none" THEN Value("get_digit", <<>>, <<>>)
    ELSE LET coordinates == SearchChar(img)
         IN  IF Len(coordinates) = 0 THEN Raise("get_digit", "ValueError")
             ELSE Value("get_digit",
                        [k \in 1..Len(coordinates) |->
                            ReadChar(Glyph(img, coordinates[k]),
                                     MaxHeight(coordinates, 1)).ch],
                        coordinates)

\* not_dots of separate_dots, for column j (1-based) of a glyph image
RECURSIVE Column(_, _, _)
Column(g, j, r) == IF r > g.h THEN <<>> ELSE <<g.px[r][j]>> \o Column(g, j, r + 1)

NotDot(g, j) == 5 * (g.h - CutZerosList(Column(g, j, 1))[1]) > g.h

\* dotlen of separate_dots: the index, from the right, of the last column that
\* is not a dot; 0 when every column is a dot
RECURSIVE DotLoop(_, _)
DotLoop(g, i) ==
    IF i >= g.w THEN 0 ELSE IF NotDot(g, g.w - i) THEN i ELSE DotLoop(g, i + 1)

DotLen(g) == DotLoop(g, 0)

\* the split condition with the upper limit included
SplitsInclusive(g) == g.w < 10 * DotLen(g) /\ 3 * DotLen(g) <= g.w

\* len(char_img[0])/10 < dotlen < len(char_img[0])/3
Splits(g) == g.w < 10 * DotLen(g) /\ 3 * DotLen(g) < g.w

\* the loop body of separate_dots for one glyph: what it appends
SeparateOne(img, c, mh) ==
    LET g == Glyph(img, c)
    IN  IF IsDigit(ReadChar(g, mh).ch) /\ \E j \in 1..g.w : ~NotDot(g, j)
        THEN IF Splits(g)
             THEN LET d == DotLen(g)
                      x == CutZeros(Crop(img, 0, img.h, c[4] - d, c[4]))
                  IN  <<<<c[1], c[2], c[3], c[4] - d>>, <<x[1], x[2], c[4] - d, c[4]>>>>
             ELSE <<c>>
        ELSE <<c>>

RECURSIVE SeparateLoop(_, _, _, _)
SeparateLoop(img, cs, k, mh) ==
    IF k > Len(cs) THEN <<>>
    ELSE SeparateOne(img, cs[k], mh) \o SeparateLoop(img, cs, k + 1, mh)

\* separate_dots(trimed_img), with th the binarized region
SeparateDots(img) ==
    LET coordinates == SearchChar(img)
    IN  IF Len(coordinates) = 0 THEN Raise("separate_dots", "ValueError")
        ELSE Value("separate_dots", <<>>,
                   SeparateLoop(img, coordinates, 1, MaxHeight(coordinates, 1)))

(* The binarized regions.  calculate_thresh_auto ends with a morphological
   opening by a 1 x 5 column, so a lit pixel of its result has lit neighbours
   above and below as far as the region reaches; each column has one of four
   profiles that the opening leaves as they are. *)
ColumnKinds == {"blank", "full", "top", "dot"}

BlockWidths == {1, 4, WideBlock}

\* a block: columns of one profile, a speck between two blank columns, or a
\* thin stroke with a dot at its foot
Blocks ==
    {[j \in 1..w |-> k] : k \in ColumnKinds, w \in BlockWidths}
        \cup {<<"blank", "dot", "blank">>, <<"full", "full", "dot", "blank">>}

Pixel(kind, r) ==
    CASE kind = "blank" -> 0
      [] kind = "full" -> 255
      [] kind = "top" -> IF r <= BarRows THEN 255 ELSE 0
      [] kind = "dot" -> IF r > SegH - DotRows THEN 255 ELSE 0

ThImage(cols) ==
    [h |-> SegH, w |-> Len(cols),
     px |-> [r \in 1..SegH |-> [c \in 1..Len(cols) |-> Pixel(cols[c], r)]]]

RECURSIVE Columns(_, _)
Columns(blocks, k) ==
    IF k > Len(blocks) THEN <<>> ELSE blocks[k] \o Columns(blocks, k + 1)

Regions ==
    {cols \in {Columns(b, 1) : b \in UNION {[1..n -> Blocks] : n \in 1..MaxBlocks}} :
        Len(cols) <= MaxWidth}

InitSeg ==
    /\ \/ im = "none" /\ th = <<>>
       \/ im = "frame" /\ th \in Regions
    /\ seg = NotCalled
    /\ GeomIdle
    /\ DecIdle
    /\ ValIdle
    /\ ArucoIdle
    /\ RotIdle
    /\ VidIdle
    /\ BatIdle
    /\ BarsIdle
    /\ DispIdle

DoSearchChar ==
    /\ im = "frame"
    /\ seg = NotCalled
    /\ seg' = Value("__search_char", <<>>, SearchChar(ThImage(th)))
    /\ UNCHANGED <<im, th>>
    /\ UNCHANGED othersSeg

DoGetDigit ==
    /\ im \in {"none", "frame"}
    /\ seg = NotCalled
    /\ seg' = GetDigit(im, ThImage(th))
    /\ UNCHANGED <<im, th>>
    /\ UNCHANGED othersSeg

DoSeparateDots ==
    /\ im = "frame"
    /\ seg = NotCalled
    /\ seg' = SeparateDots(ThImage(th))
    /\ UNCHANGED <<im, th>>
    /\ UNCHANGED othersSeg

NextSeg ==
    \/ DoSearchChar
    \/ DoGetDigit
    \/ DoSeparateDots

SpecSeg == InitSeg /\ [][NextSeg]_vars

-----------------------------------------------------------------------------
(* Claims about the segmentation *)

SegImg == ThImage(th)

\* a glyph of the candidate list was discarded by the size filter while the
\* glyphs on both sides of it were kept
C4_Witness ==
    /\ seg.op = "__search_char"
    /\ Len(Candidates(SegImg)) = 3
    /\ seg.coords = <<Candidates(SegImg)[1], Candidates(SegImg)[3]>>

\* C4: the glyphs returned by __search_char are ordered left to right: the
\* column range of each ends at or before the next one starts, the ranges are
\* pairwise disjoint and strictly increasing, and the survivors of the size
\* filter keep the order they had among the candidates.
C4_LeftToRight ==
    (seg.op = "__search_char" /\ Len(seg.coords) >= 2) =>
        LET c == seg.coords
            cs == Candidates(SegImg)
        IN  /\ \A i \in 1..(Len(c) - 1) : c[i][4] <= c[i + 1][3] /\ c[i][3] < c[i + 1][3]
            /\ \A i, j \in 1..Len(c) :
                   i < j => {x \in 0..SegImg.w : c[i][3] <= x /\ x < c[i][4]}
                                \cap {x \in 0..SegImg.w : c[j][3] <= x /\ x < c[j][4]} = {}
            /\ \A i, j \in 1..Len(c) :
                   i < j => \E a, b \in 1..Len(cs) : a < b /\ cs[a] = c[i] /\ cs[b] = c[j]

\* the largest of a non-empty set of sizes
C5_MaxOf(dims) == CHOOSE m \in dims : \A x \in dims : m >= x

\* C5 as stated: no returned glyph is narrower than 1/10 of the largest
\* candidate width or shorter than 1/10 of the largest candidate height.
C5_TenthOfLargest ==
    (seg.op = "__search_char" /\ seg.coords # <<>>) =>
        LET cs == Candidates(SegImg)
            maxw == C5_MaxOf({ShapeW(cs[k]) : k \in 1..Len(cs)})
            maxh == C5_MaxOf({ShapeH(cs[k]) : k \in 1..Len(cs)})
        IN  \A i \in 1..Len(seg.coords) :
                /\ 10 * ShapeW(seg.coords[i]) >= maxw
                /\ 10 * ShapeH(seg.coords[i]) >= maxh

\* C5 amended: every glyph returned by __search_char has a width and a height
\* strictly above 1/10 of the largest, over the candidate glyphs, of
\* min(height, width).
C5_TenthOfLargestMin ==
    (seg.op = "__search_char" /\ seg.coords # <<>>) =>
        LET cs == Candidates(SegImg)
            maxmin == C5_MaxOf({Min2(ShapeH(cs[k]), ShapeW(cs[k])) : k \in 1..Len(cs)})
        IN  \A i \in 1..Len(seg.coords) :
                /\ 10 * ShapeW(seg.coords[i]) > maxmin
                /\ 10 * ShapeH(seg.coords[i]) > maxmin

\* the filter kept a glyph and discarded another one
C5_Witness ==
    /\ seg.op = "__search_char"
    /\ Len(seg.coords) >= 1
    /\ Len(seg.coords) < Len(Candidates(SegImg))

\* column j of glyph g is dot-like: lit only within the lowest fifth of the glyph
C7_DotLike(g, j) == \A r \in 1..g.h : g.px[r][j] > 0 => 5 * (g.h - r + 1) <= g.h

\* the number of trailing dot-like columns of glyph g
C7_Trailing(g) ==
    CHOOSE d \in 0..g.w :
        /\ \A j \in (g.w - d + 1)..g.w : C7_DotLike(g, j)
        /\ d < g.w => ~C7_DotLike(g, g.w - d)

\* the row range of the lit rows of columns [c0, c1) of the region
C7_Rows(c0, c1) ==
    LET lit == {r \in 1..SegH : \E j \in (c0 + 1)..c1 : Pixel(th[j], r) > 0}
    IN  <<(CHOOSE r \in lit : \A x \in lit : r <= x) - 1, CHOOSE r \in lit : \A x \in lit : r >= x>>

\* glyph c, read against the reference height mh, is a digit whose number d
\* of trailing dot-like columns is strictly between 1/10 and 1/3 of its width
C7_Split(c, d, mh) ==
    /\ IsDigit(ReadChar(Glyph(SegImg, c), mh).ch)
    /\ ShapeW(c) < 10 * d
    /\ 3 * d < ShapeW(c)

C7_Main(c, d) == <<c[1], c[2], c[3], c[4] - d>>

C7_Dot(c, d) == <<C7_Rows(c[4] - d, c[4])[1], C7_Rows(c[4] - d, c[4])[2], c[4] - d, c[4]>>

\* what separate_dots is to return for the glyphs cs[k], cs[k+1], ...
RECURSIVE C7_Expected(_, _, _)
C7_Expected(cs, k, mh) ==
    IF k > Len(cs) THEN <<>>
    ELSE LET d == C7_Trailing(Glyph(SegImg, cs[k]))
         IN  (IF C7_Split(cs[k], d, mh)
              THEN <<C7_Main(cs[k], d), C7_Dot(cs[k], d)>>
              ELSE <<cs[k]>>) \o C7_Expected(cs, k + 1, mh)

\* glyph c is a digit whose trailing dot span d is 15% of its width
C7_FifteenPercent(c, d, mh) ==
    /\ 100 * d = 15 * ShapeW(c)
    /\ IsDigit(ReadChar(Glyph(SegImg, c), mh).ch)

\* C7: separate_dots splits a glyph that read_char classifies as a digit if
\* and only if its number of trailing dot-like columns dotlen satisfies
\* width/10 < dotlen < width/3; the two pieces replace it in place: the main
\* glyph with the original rows and columns [c2, c3 - dotlen), then the dot
\* with columns [c3 - dotlen, c3) and its own lit rows; every other glyph is
\* passed on as it is.  A digit whose trailing dot span is 15% of its width is split.
C7_SplitRule ==
    (seg.op = "separate_dots" /\ seg.st = "value") =>
        LET cs == SearchChar(SegImg)
            mh == MaxHeight(cs, 1)
        IN  /\ seg.coords = C7_Expected(cs, 1, mh)
            /\ \A k \in 1..Len(cs) :
                   LET d == C7_Trailing(Glyph(SegImg, cs[k]))
                   IN  C7_FifteenPercent(cs[k], d, mh) =>
                           \E i \in 1..(Len(seg.coords) - 1) :
                               /\ seg.coords[i] = C7_Main(cs[k], d)
                               /\ seg.coords[i + 1] = C7_Dot(cs[k], d)

\* a digit whose trailing dot span is 15% of its width has been split
C7_Witness ==
    /\ seg.op = "separate_dots"
    /\ seg.st = "value"
    /\ Len(seg.coords) = 2
    /\ LET cs == SearchChar(SegImg)
       IN  /\ Len(cs) = 1
           /\ C7_FifteenPercent(cs[1], C7_Trailing(Glyph(SegImg, cs[1])), MaxHeight(cs, 1))

\* C18: for the column sums of the region, __nonzerolist returns exactly the
\* maximal runs of nonzero entries as half-open ranges [start, end), left to
\* right, a run at index 0 and a run reaching the last index included: every
\* nonzero column lies in exactly one range and no zero column in any.
C18_MaximalRuns ==
    (im = "frame" /\ seg.op = "__search_char") =>
        LET l == SumAxis0(SegImg)
            a == NonZeroList(l)
            In(x, r) == r[1] <= x /\ x < r[2]
        IN  /\ \A k \in 1..Len(a) :
                   /\ 0 <= a[k][1] /\ a[k][1] < a[k][2] /\ a[k][2] <= Len(l)
                   /\ a[k][1] = 0 \/ l[a[k][1]] = 0
                   /\ a[k][2] = Len(l) \/ l[a[k][2] + 1] = 0
            /\ \A k \in 1..(Len(a) - 1) : a[k][2] < a[k + 1][1]
            /\ \A x \in 0..(Len(l) - 1) :
                   IF l[x + 1] > 0
                   THEN \E k \in 1..Len(a) :
                            /\ In(x, a[k])
                            /\ \A j \in 1..Len(a) : In(x, a[j]) => j = k
                   ELSE \A k \in 1..Len(a) : ~In(x, a[k])

\* C8: on a region with no nonzero column __search_char returns the empty
\* list, and get_digit and separate_dots return without raising, with an
\* empty result.
C8_EmptySoft ==
    (im = "frame" /\ seg.op # "-" /\ \A c \in 1..Len(th) : th[c] = "blank") =>
        seg.st = "value" /\ seg.coords = <<>> /\ seg.chars = <<>>

\* the shift candidates accepted so far: positions k of the check list whose
\* decode parsed as a number containing '.'
C24_Accepted == {k \in 1..(Len(fga.decoded) - 1) : fga.decoded[k + 1] = "numdot"}

C24_Returned == gret.op = "find_good_angle" /\ gret.st = "value" /\ fga.pc = "done"

C24_Unshifted == CorrectAngles(corners, fga.coarse - fga.fine).out

C25_First == CHOOSE k \in C24_Accepted : \A j \in C24_Accepted : k <= j

\* C25: the shift candidates are tried in the order +3, +6, -3, -6 percent of
\* the width, and the geometry returned is that of the first candidate in
\* this order whose decode parses as a number containing a decimal point.
C25_FirstAccepted ==
    (C24_Returned /\ fga.type = "number" /\ C24_Accepted # {}) =>
        /\ ShiftCheck = <<3, 6, -3, -6>>
        /\ cur = Mod(fga.res, "TRw", ShiftCheck[C25_First]).out

-----------------------------------------------------------------------------
(* Values: the loop of App.read_alldata that turns the text of each record
   into its value.  The body of the loop reads the record x (rec) and the four
   settings only.  Numbers are kept as integers, in units of 1 / Scale. *)

\* a < b and a > b for a value a and a number b; False when a is nan
Less(a, b) == a.kind = "num" /\ a.v < b * Scale

More(a, b) == a.kind = "num" /\ a.v > b * Scale

\* the loop body with the upper limit itself rejected
ReadValueMaxExcluded(txt, settings) ==
    LET v0 == Float(txt)
        v1 == IF settings.min /\ Less(v0, settings.min_num) THEN NaN ELSE v0
    IN  IF settings.max /\ ~Less(v1, settings.max_num) THEN NaN ELSE v1

\* the body of the loop: x['value'] from x['txt']
ReadValue(txt, settings) ==
    LET v0 == Float(txt)
        v1 == IF settings.min /\ Less(v0, settings.min_num) THEN NaN ELSE v0
    IN  IF settings.max /\ More(v1, settings.max_num) THEN NaN ELSE v1

Alphabet == {"0", "1", "5", ".", "-", "+", "*"}

Texts == UNION {[1..n -> Alphabet] : n \in 0..MaxTxtLen}

Limits == {0, 100}

InitVal ==
    /\ val \in [min : BOOLEAN, max : BOOLEAN, min_num : Limits, max_num : Limits]
    /\ \E txt \in Texts : rec = [txt |-> txt, value |-> Unset]
    /\ GeomIdle
    /\ DecIdle
    /\ SegIdle
    /\ ArucoIdle
    /\ RotIdle
    /\ VidIdle
    /\ BatIdle
    /\ BarsIdle
    /\ DispIdle

DoReadValue ==
    /\ rec.value = Unset
    /\ rec' = [rec EXCEPT !.value = ReadValue(rec.txt, val)]
    /\ UNCHANGED val
    /\ UNCHANGED othersVal

NextVal == DoReadValue

SpecVal == InitVal /\ [][NextVal]_vars

-----------------------------------------------------------------------------
(* Markers: Corners._from_aruco_markers and trim_aruco_markers.  A detection
   (aruco.detectMarkers) is the set of the ids it found, or NoIds when it
   found no marker: ids is then None. *)

NoIds == [none |-> TRUE, ids |-> {}]

Detections ==
    {NoIds} \cup {[none |-> FALSE, ids |-> d] : d \in SUBSET (0..MaxMarkerId) \ {{}}}

\* aruco_ids: top-left, top-right, bottom-right, bottom-left
ArucoIds == <<0, 1, 2, 3>>

\* the markers sit on a grid, clockwise from the top-left one
MarkerOrigin(k) == <<MarkerPitch * ((k + (k \div 2)) % 2), MarkerPitch * (k \div 2)>>

\* aruco_corners[...][0][j]: corner j of marker k, clockwise from its top-left
MarkerCorner(k, j) ==
    <<MarkerOrigin(k)[1] + (IF j \in {1, 2} THEN MarkerSize ELSE 0),
      MarkerOrigin(k)[2] + (IF j \in {2, 3} THEN MarkerSize ELSE 0)>>

\* round(pos[i]) with pos = a + (a - b) / 7, a the inner and b the outer
\* corner of marker aruco_ids[i]
Pos(i) ==
    LET b == MarkerCorner(ArucoIds[i + 1], i)
        a == MarkerCorner(ArucoIds[i + 1], (i + 2) % 4)
    IN  <<PyRound(8 * a[1] - b[1], 7), PyRound(8 * a[2] - b[2], 7)>>

MarkerGeometry ==
    Corners(Pos(0)[1], Pos(0)[2], Pos(1)[1], Pos(1)[2],
            Pos(3)[1], Pos(3)[2], Pos(2)[1], Pos(2)[2])

IdSet == {ArucoIds[i] : i \in 1..Len(ArucoIds)}

ACall(op, st, out, shape, seen) ==
    [op |-> op, st |-> st, out |-> out, shape |-> shape, seen |-> seen]

\* Corners._from_aruco_markers(img, aruco_ids), with d1 and d2 what the first
\* and the second detection find; ids.T raises AttributeError when ids is None
FromArucoMarkers(d1, d2) ==
    IF d1.none THEN ACall("_from_aruco_markers", "AttributeError", NoCorners, <<>>, <<d1>>)
    ELSE IF d1.ids # IdSet
         THEN IF d2.none
              THEN ACall("_from_aruco_markers", "AttributeError", NoCorners, <<>>, <<d1, d2>>)
              ELSE IF d2.ids # IdSet
                   THEN ACall("_from_aruco_markers", "None", NoCorners, <<>>, <<d1, d2>>)
                   ELSE ACall("_from_aruco_markers", "value", MarkerGeometry, <<>>, <<d1, d2>>)
         ELSE ACall("_from_aruco_markers", "value", MarkerGeometry, <<>>, <<d1>>)

\* trim_aruco_markers(img, aruco_ids): the shape of the trimmed image
TrimArucoMarkers(d1, d2, imgshape) ==
    LET c == FromArucoMarkers(d1, d2)
    IN  IF c.st = "value"
        THEN ACall("trim_aruco_markers", "value", NoCorners,
                   Transform(imgshape, CalcTransformMatrix(c.out).out), c.seen)
        ELSE ACall("trim_aruco_markers", "AttributeError", NoCorners, <<>>, c.seen)

InitAruco ==
    /\ aret = NoCall
    /\ GeomIdle
    /\ DecIdle
    /\ SegIdle
    /\ ValIdle
    /\ RotIdle
    /\ VidIdle
    /\ BatIdle
    /\ BarsIdle
    /\ DispIdle

DoFromArucoMarkers ==
    /\ aret.op = "-"
    /\ \E d1 \in Detections, d2 \in Detections : aret' = FromArucoMarkers(d1, d2)
    /\ UNCHANGED othersAruco

DoTrimArucoMarkers ==
    /\ aret.op = "-"
    /\ \E d1 \in Detections, d2 \in Detections :
          aret' = TrimArucoMarkers(d1, d2, FrameShape)
    /\ UNCHANGED othersAruco

NextAruco ==
    \/ DoFromArucoMarkers
    \/ DoTrimArucoMarkers

SpecAruco == InitAruco /\ [][NextAruco]_vars

\* C9: _from_aruco_markers returns a geometry only when the ids of the last of
\* its at most two detections are exactly the requested ids, the second
\* detection being made only when the first fails; in every other case, also
\* when a detection finds no marker, it returns None without raising, and
\* trim_aruco_markers does not raise.
C9_NoneWithoutRaising ==
    aret.op # "-" =>
        LET n == Len(aret.seen)
            found == aret.seen[n].ids = IdSet
        IN  /\ n \in {1, 2}
            /\ n = 2 => aret.seen[1].ids # IdSet
            /\ aret.op = "_from_aruco_markers" =>
                   IF found THEN aret.st = "value" ELSE aret.st = "None"
            /\ aret.op = "trim_aruco_markers" => aret.st = "value"


-----------------------------------------------------------------------------
(* rotate_image(img, angle) *)

\* cv2.rotate(img, cv2.ROTATE_90_CLOCKWISE)
Rotate90Clockwise(img) ==
    [h |-> img.w, w |-> img.h,
     px |-> [r \in 1..img.w |-> [c \in 1..img.h |-> img.px[img.h - c + 1][r]]]]

\* cv2.rotate(img, cv2.ROTATE_180)
Rotate180(img) ==
    [h |-> img.h, w |-> img.w,
     px |-> [r \in 1..img.h |-> [c \in 1..img.w |-> img.px[img.h - r + 1][img.w - c + 1]]]]

\* cv2.rotate(img, cv2.ROTATE_90_COUNTERCLOCKWISE)
Rotate90CounterClockwise(img) ==
    [h |-> img.w, w |-> img.h,
     px |-> [r \in 1..img.w |-> [c \in 1..img.h |-> img.px[c][img.w - r + 1]]]]

\* the outcome of a rotate_image call
Rotated(img, angle, out) == [img |-> img, angle |-> angle, st |-> "value", out |-> out]

\* rotate_image as it would be if it reduced the angle modulo 360 first
RotateImageMod360(img, angle) ==
    IF angle % 360 = 90 THEN Rotated(img, angle, Rotate90Clockwise(img))
    ELSE IF angle % 360 = 180 THEN Rotated(img, angle, Rotate180(img))
    ELSE IF angle % 360 = 270 THEN Rotated(img, angle, Rotate90CounterClockwise(img))
    ELSE Rotated(img, angle, img)

\* rotate_image(img, angle)
RotateImage(img, angle) ==
    IF angle = 90 THEN Rotated(img, angle, Rotate90Clockwise(img))
    ELSE IF angle = 180 THEN Rotated(img, angle, Rotate180(img))
    ELSE IF angle = 270 THEN Rotated(img, angle, Rotate90CounterClockwise(img))
    ELSE Rotated(img, angle, img)

\* the angles a caller passes: the four of the documentation, negative
\* ones, a full turn and more, and angles that are no multiple of 90
RotAngles == {-270, -90, -1, 0, 45, 90, 180, 269, 270, 360, 450}

\* frames of two grey levels
RotFrames ==
    UNION {{[h |-> H, w |-> W, px |-> px] : px \in [1..H -> [1..W -> {0, 255}]]} :
           <<H, W>> \in (1..MaxRotH) \X (1..MaxRotW)}

InitRot ==
    /\ \E img \in RotFrames, angle \in RotAngles :
          rot = [img |-> img, angle |-> angle, st |-> "none", out |-> NoImage]
    /\ GeomIdle
    /\ DecIdle
    /\ SegIdle
    /\ ValIdle
    /\ ArucoIdle
    /\ VidIdle
    /\ BatIdle
    /\ BarsIdle
    /\ DispIdle

DoRotateImage ==
    /\ rot.img # NoImage
    /\ rot.st = "none"
    /\ rot' = RotateImage(rot.img, rot.angle)
    /\ UNCHANGED othersRot

NextRot == DoRotateImage

SpecRot == InitRot /\ [][NextRot]_vars

\* the pixel of the returned frame at row r, column c (0-based)
C16_Out(r, c) == rot.out.px[r + 1][c + 1]

C16_In(r, c) == rot.img.px[r + 1][c + 1]

\* C16: rotate_image rotates the frame for angle 90, 180 and 270 only; for
\* angle 0 and every other angle (negative, 360, no multiple of 90) it
\* returns the frame it was given, and it never raises.
C16_RotatesOnly ==
    rot.st # "none" =>
        LET H == rot.img.h
            W == rot.img.w
        IN  /\ rot.st = "value"
            /\ rot.angle \notin {90, 180, 270} => rot.out = rot.img
            /\ rot.angle \in {90, 270} => rot.out.h = W /\ rot.out.w = H
            /\ rot.angle = 180 => rot.out.h = H /\ rot.out.w = W
            /\ \A r \in 0..(H - 1), c \in 0..(W - 1) :
                   /\ rot.angle = 90 => C16_Out(c, H - 1 - r) = C16_In(r, c)
                   /\ rot.angle = 180 => C16_Out(H - 1 - r, W - 1 - c) = C16_In(r, c)
                   /\ rot.angle = 270 => C16_Out(W - 1 - c, r) = C16_In(r, c)

\* rotate_image returned the frame it was given for the angle -270, which a
\* quarter turn clockwise would have changed
C16_Witness ==
    /\ rot.st = "value"
    /\ rot.angle = -270
    /\ rot.out = rot.img
    /\ Rotate90Clockwise(rot.img) # rot.img


-----------------------------------------------------------------------------
(* get_videoimg(videolist, sec).  Times are counted in ticks of 1/8 second
   and frame rates are powers of two, so that every product and quotient the
   function computes in floating point is exact.  A frame is named by its
   handle (1-based position in videolist) and its index. *)

TicksPerSecond == 8

\* x.get(cv2.CAP_PROP_FPS) of the handles
FpsValues == {2, 4}

\* the handles: frame rate and frame count of each
Caps == [fps : FpsValues, count : 0..MaxFrameCount]

RECURSIVE CapLists(_)
CapLists(n) ==
    IF n = 0 THEN {<<>>}
    ELSE CapLists(n - 1) \cup {Append(l, c) : l \in {x \in CapLists(n - 1) : Len(x) = n - 1}, c \in Caps}

\* x.set(cv2.CAP_PROP_POS_FRAMES, idx) and x.read() on handle k
SetPos(k, idx) == [op |-> "set", cap |-> k, idx |-> idx, ok |-> TRUE]

Read(k, idx, ok) == [op |-> "read", cap |-> k, idx |-> idx, ok |-> ok]

\* what get_videoimg returns: a frame (converted to grey) or None
VideoImg(caps, sec, k, idx, log) == [caps |-> caps, sec |-> sec, st |-> "value", out |-> <<k, idx>>, log |-> log]

VideoNone(caps, sec, log) == [caps |-> caps, sec |-> sec, st |-> "None", out |-> <<>>, log |-> log]

\* the read as it would be if the retry took the next frame, fr+1
ReadFrameForward(caps, sec, k, fr, ret1, ret2) ==
    IF ret1
    THEN VideoImg(caps, sec, k, fr, <<SetPos(k, fr), Read(k, fr, TRUE)>>)
    ELSE LET log == <<SetPos(k, fr), Read(k, fr, FALSE), SetPos(k, fr + 1), Read(k, fr + 1, ret2)>>
         IN  IF ret2 THEN VideoImg(caps, sec, k, fr + 1, log) ELSE VideoNone(caps, sec, log)

\* the read of frame fr of handle k, and of frame fr-1 when it fails; ret1
\* and ret2 are what the two x.read() calls report
ReadFrame(caps, sec, k, fr, ret1, ret2) ==
    IF ret1
    THEN VideoImg(caps, sec, k, fr, <<SetPos(k, fr), Read(k, fr, TRUE)>>)
    ELSE LET log == <<SetPos(k, fr), Read(k, fr, FALSE), SetPos(k, fr - 1), Read(k, fr - 1, ret2)>>
         IN  IF ret2 THEN VideoImg(caps, sec, k, fr - 1, log) ELSE VideoNone(caps, sec, log)

\* the loop over videolist from handle k on, with s ticks left
RECURSIVE VideoLoop(_, _, _, _, _, _)
VideoLoop(caps, sec, k, s, ret1, ret2) ==
    IF k > Len(caps) THEN VideoNone(caps, sec, <<>>)
    ELSE LET fps == caps[k].fps
             fr == PyRound(fps * s, TicksPerSecond)
             max_frame == caps[k].count
         IN  IF fr < max_frame
             THEN ReadFrame(caps, sec, k, fr, ret1, ret2)
             ELSE LET rest == s - (TicksPerSecond * max_frame) \div fps
                  IN  IF rest < 0 THEN VideoNone(caps, sec, <<>>)
                      ELSE VideoLoop(caps, sec, k + 1, rest, ret1, ret2)

GetVideoImg(videolist, sec, ret1, ret2) == VideoLoop(videolist, sec, 1, sec, ret1, ret2)

InitVid ==
    /\ \E caps \in CapLists(MaxCaps), sec \in 0..MaxSecTicks :
          vid = [caps |-> caps, sec |-> sec, st |-> "none", out |-> <<>>, log |-> <<>>]
    /\ GeomIdle
    /\ DecIdle
    /\ SegIdle
    /\ ValIdle
    /\ ArucoIdle
    /\ RotIdle
    /\ BatIdle
    /\ BarsIdle
    /\ DispIdle

DoGetVideoImg ==
    /\ vid.st = "none"
    /\ \E ret1, ret2 \in BOOLEAN : vid' = GetVideoImg(vid.caps, vid.sec, ret1, ret2)
    /\ UNCHANGED othersVid

NextVid == DoGetVideoImg

SpecVid == InitVid /\ [][NextVid]_vars

\* s_k of C13 in ticks: the offset less the durations of the handles before k
RECURSIVE C13_S(_)
C13_S(k) ==
    IF k = 1 THEN vid.sec
    ELSE C13_S(k - 1) - (TicksPerSecond * vid.caps[k - 1].count) \div vid.caps[k - 1].fps

\* round(fps_k * s_k) < frame_count_k
C13_Holds(k) == PyRound(vid.caps[k].fps * C13_S(k), TicksPerSecond) < vid.caps[k].count

\* C13: get_videoimg reads from exactly one handle, the first handle k in
\* list order with round(fps_k * s_k) < frame_count_k, where s_0 = sec and
\* s_{k+1} = s_k - frame_count_k / fps_k; no other handle is positioned or
\* read, and when no handle satisfies the condition the result is None.
C13_FirstHandle ==
    vid.st \in {"value", "None"} =>
        LET sat == {k \in 1..Len(vid.caps) : C13_Holds(k)}
        IN  IF sat = {} THEN vid.st = "None" /\ vid.log = <<>>
            ELSE LET k0 == CHOOSE k \in sat : \A j \in sat : k <= j
                 IN  /\ \E i \in 1..Len(vid.log) : vid.log[i].op = "read"
                     /\ \A i \in 1..Len(vid.log) : vid.log[i].cap = k0

\* the x.read() calls of the run, in order
C14_Reads == SelectSeq(vid.log, LAMBDA e : e.op = "read")

\* C14: a failed read at frame index fr is followed by exactly one more read
\* at index fr-1 on the same handle, positioned there first, and by no third;
\* a read that succeeds is never followed by a retry; when both reads fail
\* the function returns None.
C14_OneRetry ==
    vid.st \in {"value", "None"} =>
        LET reads == C14_Reads
        IN  /\ Len(reads) <= 2
            /\ Len(reads) >= 1 =>
                   /\ reads[1].ok => Len(reads) = 1 /\ vid.out = <<reads[1].cap, reads[1].idx>>
                   /\ ~reads[1].ok =>
                          /\ Len(reads) = 2
                          /\ reads[2].cap = reads[1].cap
                          /\ reads[2].idx = reads[1].idx - 1
                          /\ vid.log[3] = SetPos(reads[1].cap, reads[1].idx - 1)
                          /\ reads[2].ok => vid.out = <<reads[2].cap, reads[2].idx>>
                          /\ ~reads[2].ok => vid.st = "None"

\* the read of a frame of the second handle failed, and so did the retry
C14_Witness ==
    /\ vid.st = "None"
    /\ Len(C14_Reads) = 2
    /\ C14_Reads[1].cap = 2 /\ ~C14_Reads[1].ok
    /\ C14_Reads[2] = Read(2, C14_Reads[1].idx - 1, FALSE)


-----------------------------------------------------------------------------
(* App.read_alldata of gui.py: the batch over the image files of a folder or
   over the frames of the loaded videos, one frame per step. *)

\* parameters of get_digit as readdigits.py defines it
GetDigitParams == {"im", "corners"}

\* a Python call f(..., **keywords): TypeError when a keyword names no
\* parameter of f
PyCall(op, params, keywords, result) ==
    IF keywords \subseteq params THEN result ELSE Raise(op, "TypeError")

\* a, b, c = t for n targets: ValueError unless t has n items
Unpack(op, t, n, result) ==
    IF Len(t) = n THEN result ELSE Raise(op, "ValueError")

\* valueread, segments, coordinates = get_digit(im, d, autocorrect=False)
GuiGetDigit(im_, img) ==
    LET r == GetDigit(im_, img)
        call == PyCall("get_digit", GetDigitParams, {"autocorrect"}, r)
    IN  IF call.st = "value"
        THEN Unpack("get_digit", <<call.chars, call.coords>>, 3, call)
        ELSE call

\* the regions the frames of a batch show
BatRegions == {[j \in 1..4 |-> k] : k \in ColumnKinds}

\* what the marker detections of a frame find: nothing, one marker, all four
BatDetections == {NoIds, [none |-> FALSE, ids |-> {0}], [none |-> FALSE, ids |-> IdSet]}

\* max_sec = math.ceil(self.max_videosec), the sum of frame_count / fps
MaxSec(caps) ==
    LET RECURSIVE Ticks(_)
        Ticks(k) == IF k > Len(caps) THEN 0
                    ELSE (TicksPerSecond * caps[k].count) \div caps[k].fps + Ticks(k + 1)
    IN  (Ticks(1) + TicksPerSecond - 1) \div TicksPerSecond

\* the number of frames of the batch: len(image_filelist), or the length of
\* range(0, max_sec, time_spacing)
Frames(b) ==
    IF b.mode = "image" THEN b.files
    ELSE (MaxSec(b.caps) + b.spacing - 1) \div b.spacing

\* the loop that turns x['txt'] into x['value']: float() of the list of
\* characters get_digit returns, or of "", raises, and the except gives nan
Clamp(results) == [k \in 1..Len(results) |-> [results[k] EXCEPT !.value = NaN]]

InitBat ==
    /\ \E mode \in {"image", "video"}, files \in 0..MaxFiles, caps \in CapLists(MaxCaps),
          spacing \in 1..MaxSpacing, aruco \in BOOLEAN, th_ \in BatRegions :
          /\ mode = "image" => caps = <<>> /\ spacing = 1
          /\ mode = "video" => files = 0
          /\ bat = [NoBatch EXCEPT !.mode = mode, !.files = files, !.caps = caps,
                                   !.spacing = spacing, !.aruco = aruco, !.th = th_,
                                   !.pc = "start"]
    /\ GeomIdle
    /\ DecIdle
    /\ SegIdle
    /\ ValIdle
    /\ ArucoIdle
    /\ RotIdle
    /\ VidIdle
    /\ BarsIdle
    /\ DispIdle

\* up to the loop: return when there is no file or no video, else progress 0
BatStart ==
    /\ bat.pc = "start"
    /\ IF (bat.mode = "image" /\ bat.files = 0) \/ (bat.mode = "video" /\ Len(bat.caps) = 0)
       THEN bat' = [bat EXCEPT !.pc = "done", !.st = "returned"]
       ELSE bat' = [bat EXCEPT !.pc = "load", !.progress = 0]
    /\ UNCHANGED othersBat

\* one iteration up to the decode: the progress, the frame (cv2.imread or
\* get_videoimg at second t), trim_aruco_markers when it is switched on
BatLoad ==
    /\ bat.pc = "load"
    /\ bat.i < Frames(bat)
    /\ \E ret1, ret2 \in BOOLEAN, d1 \in BatDetections, d2 \in BatDetections :
          LET t == bat.i * bat.spacing
              frame == IF bat.mode = "image"
                       THEN IF ret1 THEN "frame" ELSE "none"
                       ELSE IF GetVideoImg(bat.caps, TicksPerSecond * t, ret1, ret2).st = "value"
                            THEN "frame" ELSE "none"
              trim == IF frame = "none" THEN "cv2.error"
                      ELSE TrimArucoMarkers(d1, d2, FrameShape).st
              b == [bat EXCEPT !.progress = bat.i, !.im = frame, !.loaded = @ + 1]
          IN  IF bat.aruco /\ trim # "value"
              THEN bat' = [b EXCEPT !.pc = "raised", !.at = "trim_aruco_markers", !.st = trim]
              ELSE bat' = [b EXCEPT !.pc = "decode"]
    /\ UNCHANGED othersBat

\* the rest of the iteration: get_digit, the record, results.append
BatDecode ==
    /\ bat.pc = "decode"
    /\ LET r == GuiGetDigit(bat.im, ThImage(bat.th))
       IN  IF r.st = "value"
           THEN bat' = [bat EXCEPT !.pc = "load", !.i = @ + 1, !.at = "get_digit",
                                   !.results = Append(@, [number |-> bat.i, txt |-> r.chars,
                                                          value |-> Unset])]
           ELSE bat' = [bat EXCEPT !.pc = "raised", !.at = "get_digit", !.st = r.st]
    /\ UNCHANGED othersBat

\* after the loop: the values, the csv file, 'complete.'
BatFinish ==
    /\ bat.pc = "load"
    /\ bat.i >= Frames(bat)
    /\ bat' = [bat EXCEPT !.pc = "done", !.st = "complete", !.results = Clamp(@)]
    /\ UNCHANGED othersBat

NextBat ==
    \/ BatStart
    \/ BatLoad
    \/ BatDecode
    \/ BatFinish

SpecBat == InitBat /\ [][NextBat]_vars

\* the handler has ended: returned, completed or raised
C11_Ended == bat.pc \in {"done", "raised"}

\* C11: a decoded text that does not parse as a number gives a record with
\* value NaN for that frame only: the loop over the results goes on, every
\* other record keeps its own value, and there are as many records as frames.
C11_NaNForThatFrame ==
    (C11_Ended /\ bat.st # "returned") =>
        /\ Len(bat.results) = Frames(bat)
        /\ \A k \in 1..Len(bat.results) :
               bat.results[k].value = Float(bat.results[k].txt)

\* C12: get_digit of a null image returns the empty decode ("", []) and
\* does not use the geometry; when a video frame is unreadable after the
\* retry, the batch loop reaches get_digit with the null image and records an
\* empty decode for the frame, it does not raise.
C12_NullFrame ==
    /\ GetDigit("none", NoImage) = Value("get_digit", <<>>, <<>>)
    /\ (bat.mode = "video" /\ ~bat.aruco /\ bat.im = "none" /\ bat.at = "get_digit") =>
           /\ bat.pc # "raised"
           /\ Len(bat.results) = bat.loaded
           /\ bat.results[bat.loaded].txt = <<>>

\* C15: frames are processed one after another and the output holds one
\* record per processed frame, in frame order: record i has number i, it is
\* appended after the decode of frame i and before frame i+1 is loaded, and
\* the progress counter never decreases.
C15_OneRecordPerFrame ==
    /\ \A k \in 1..Len(bat.results) : bat.results[k].number = k - 1
    /\ bat.pc = "decode" => Len(bat.results) = bat.loaded - 1
    /\ bat.pc \in {"load", "done"} => Len(bat.results) = bat.loaded
    /\ (bat.pc = "raised" /\ bat.at = "get_digit") => Len(bat.results) = bat.loaded
    /\ bat.progress = (IF bat.loaded = 0 THEN 0 ELSE bat.loaded - 1)


-----------------------------------------------------------------------------
(* assemble_bars: joining a separated vertical bar to the body of its digit.
   A coordinate is (row start, row end, column start, column end), as
   __search_char builds it; positions are counted from 0 as in the code. *)

\* a glyph as read_char and __search_char give it, with its column extent
\* and the gap of columns before it
Glyph_(ch, switch, rows, wid, gap) ==
    [ch |-> ch, seg |-> switch, rows |-> rows, wid |-> wid, gap |-> gap]

\* a short undecoded bar, a full-height '1', and bodies with and without
\* the segments 1 and 4
GlyphKinds ==
    {Glyph_("", None, <<3, 7>>, 1, 1),
     Glyph_("1", <<0, 0, 1, 0, 0, 1, 0>>, <<0, 10>>, 2, 1),
     Glyph_("3", <<1, 0, 1, 1, 0, 1, 1>>, <<0, 10>>, 6, 1),
     Glyph_("3", <<1, 0, 1, 1, 0, 1, 1>>, <<1, 10>>, 6, 3),
     Glyph_("8", <<1, 1, 1, 1, 1, 1, 1>>, <<0, 10>>, 6, 1),
     Glyph_("*", <<0, 0, 0, 0, 0, 0, 0>>, <<0, 9>>, 3, 1)}

\* the coordinates of the glyphs g, left to right from column col
RECURSIVE Place(_, _, _)
Place(g, k, col) ==
    IF k > Len(g) THEN <<>>
    ELSE LET c0 == col + g[k].gap
             c1 == c0 + g[k].wid
         IN  <<<<g[k].rows[1], g[k].rows[2], c0, c1>>>> \o Place(g, k + 1, c1)

BarsInput(g) ==
    [res |-> [k \in 1..Len(g) |-> g[k].ch],
     segments |-> [k \in 1..Len(g) |-> g[k].seg],
     coordinates |-> Place(g, 1, 0)]

BarsInputs(n) == UNION {{BarsInput(g) : g \in [1..m -> GlyphKinds]} : m \in 1..n}

\* (None, 0, None, None, 0, None, None), None written -1
NoLeftBar == <<-1, 0, -1, -1, 0, -1, -1>>

\* __compare_segment
CompareSegment(tuplea, tupleb) ==
    IF tuplea = None THEN FALSE
    ELSE \A k \in 1..Min2(Len(tuplea), Len(tupleb)) :
             tupleb[k] \in {0, 1} => tuplea[k] = tupleb[k]

\* the test of lines 539 and 546 on wid_self, wid_bar and gap
BarFits(wid_self, wid_bar, gap) == gap < wid_bar /\ wid_bar * 2 < wid_self

\* lines 535-540: the pending merge of glyph i with the glyph on its left
PopsLeft(res, coordinates, i) ==
    IF i > 0 /\ res[i] \in {"", "1"}
    THEN LET wid_self == coordinates[i + 1][2] - coordinates[i + 1][1]
             wid_bar == coordinates[i][2] - coordinates[i][1]
             gap == coordinates[i + 1][1] - coordinates[i][2]
         IN  IF BarFits(wid_self, wid_bar, gap) THEN <<<<i, -1>>>> ELSE <<>>
    ELSE <<>>

\* lines 542-548: the pending merge of glyph i with the glyph on its right
PopsRight(res, coordinates, i) ==
    IF i < Len(res) - 1 /\ res[i + 2] \in {"", "1"}
    THEN LET wid_self == coordinates[i + 1][2] - coordinates[i + 1][1]
             wid_bar == coordinates[i + 2][2] - coordinates[i + 2][1]
             gap == coordinates[i + 2][1] - coordinates[i + 1][2]
         IN  IF BarFits(wid_self, wid_bar, gap) THEN <<<<i, 0>>>> ELSE <<>>
    ELSE <<>>

\* lines 531-548: pops, from glyph i on
RECURSIVE Pops(_, _, _, _)
Pops(res, segments, coordinates, i) ==
    IF i >= Len(res) THEN <<>>
    ELSE (IF CompareSegment(segments[i + 1], NoLeftBar)
          THEN PopsLeft(res, coordinates, i) \o PopsRight(res, coordinates, i)
          ELSE <<>>) \o Pops(res, segments, coordinates, i + 1)

\* list.pop(i): IndexError outside -len..len-1, a negative i counts from
\* the end
PyPop(l, i) ==
    LET j == IF i < 0 THEN i + Len(l) ELSE i
    IN  IF j < 0 \/ j >= Len(l)
        THEN [ok |-> FALSE, item |-> <<>>, rest |-> l]
        ELSE [ok |-> TRUE, item |-> l[j + 1],
              rest |-> [k \in 1..(Len(l) - 1) |-> IF k <= j THEN l[k] ELSE l[k + 1]]]

\* list.insert(i, x): i is clamped to the list
PyInsert(l, i, x) ==
    LET j0 == IF i < 0 THEN i + Len(l) ELSE i
        j == Max2(0, Min2(j0, Len(l)))
    IN  [k \in 1..(Len(l) + 1) |->
            IF k <= j THEN l[k] ELSE IF k = j + 1 THEN x ELSE l[k - 1]]

\* lines 557-562: the box of main joined with con
MergeBox(p, main, con) ==
    IF p[2] = -1
    THEN <<con[1], main[2], Min2(con[3], main[3]), Max2(con[4], main[4])>>
    ELSE <<main[1], con[2], Min2(con[3], main[3]), Max2(con[4], main[4])>>

InitBars ==
    /\ \E input \in BarsInputs(MaxGlyphs) :
           bars = [NoBars EXCEPT !.pc = "call", !.res = input.res,
                                 !.segments = input.segments,
                                 !.coordinates = input.coordinates,
                                 !.coordinates0 = input.coordinates]
    /\ GeomIdle
    /\ DecIdle
    /\ SegIdle
    /\ ValIdle
    /\ ArucoIdle
    /\ RotIdle
    /\ VidIdle
    /\ BatIdle
    /\ DispIdle

\* lines 529-548: the early return, or the list of pending merges
BarsSchedule ==
    /\ bars.pc = "call"
    /\ IF ~\E k \in 1..Len(bars.res) : bars.res[k] \in {"", "1"}
       THEN bars' = [bars EXCEPT !.pc = "done", !.st = "value", !.out = bars.coordinates]
       ELSE LET pops == Pops(bars.res, bars.segments, bars.coordinates, 0)
            IN  bars' = [bars EXCEPT !.pc = "merge", !.pops = pops, !.pops0 = pops]
    /\ UNCHANGED othersBars

\* lines 549-566: one pass of the while loop.  p is a tuple: pp[0] -= 1 on a
\* remaining p raises TypeError
BarsMerge ==
    /\ bars.pc = "merge"
    /\ bars.pops # <<>>
    /\ LET p == Head(bars.pops)
           pops == Tail(bars.pops)
           main == PyPop(bars.coordinates, p[1])
           con == PyPop(main.rest, p[1] + p[2])
           box == MergeBox(p, main.item, con.item)
           merged == PyInsert(con.rest, p[1] + p[2], box)
           merge == [p |-> p, main |-> main.item, con |-> con.item, box |-> box]
       IN  IF ~main.ok
           THEN bars' = [bars EXCEPT !.pc = "done", !.st = "IndexError", !.pops = pops]
           ELSE IF ~con.ok
           THEN bars' = [bars EXCEPT !.pc = "done", !.st = "IndexError", !.pops = pops,
                                     !.coordinates = main.rest]
           ELSE IF \E k \in 1..Len(pops) : pops[k][1] > p[1]
           THEN bars' = [bars EXCEPT !.pc = "done", !.st = "TypeError", !.pops = pops,
                                     !.coordinates = merged,
                                     !.merges = Append(@, merge)]
           ELSE bars' = [bars EXCEPT !.pops = pops, !.coordinates = merged,
                                     !.merges = Append(@, merge)]
    /\ UNCHANGED othersBars

\* line 567: return coordinates
BarsReturn ==
    /\ bars.pc = "merge"
    /\ bars.pops = <<>>
    /\ bars' = [bars EXCEPT !.pc = "done", !.st = "value", !.out = bars.coordinates]
    /\ UNCHANGED othersBars

NextBars == BarsSchedule \/ BarsMerge \/ BarsReturn

SpecBars == InitBars /\ [][NextBars]_vars


\* the glyph at position i of the call's coordinate list, and its partner
\* in the pending merge p
C26_Main(p) == bars.coordinates0[p[1] + 1]

C26_Con(p) == bars.coordinates0[p[1] + 1 + (IF p[2] = -1 THEN -1 ELSE 1)]

C26_Covers(box, c) == box[3] <= c[3] /\ c[4] <= box[4]

\* C26: with two or more pending merges assemble_bars completes all of them
\* without raising: every pending merge is applied to the glyph pair it was
\* recorded for, and the final glyph count is the initial count minus the
\* number of merges.
C26_AllMerged ==
    (bars.pc = "done" /\ Len(bars.pops0) >= 2) =>
        /\ bars.st = "value"
        /\ Len(bars.merges) = Len(bars.pops0)
        /\ Len(bars.out) = Len(bars.coordinates0) - Len(bars.pops0)
        /\ \A k \in 1..Len(bars.merges) :
               /\ C26_Covers(bars.merges[k].main, C26_Main(bars.pops0[k]))
               /\ C26_Covers(bars.merges[k].con, C26_Con(bars.pops0[k]))

C27_Width(c) == c[4] - c[3]

\* the merges of glyph i with a neighbour j, by the columns of the two
C27_ByColumns ==
    {p \in (0..(Len(bars.res) - 1)) \X {-1, 0} :
        LET i == p[1] + 1
            j == IF p[2] = -1 THEN i - 1 ELSE i + 1
        IN  /\ j \in 1..Len(bars.res)
            /\ bars.res[j] \in {"", "1"}
            /\ bars.segments[i] # None
            /\ bars.segments[i][2] = 0
            /\ bars.segments[i][5] = 0
            /\ LET ci == bars.coordinates0[i]
                   cj == bars.coordinates0[j]
                   gap == IF j < i THEN ci[3] - cj[4] ELSE cj[3] - ci[4]
               IN  gap < C27_Width(cj) /\ 2 * C27_Width(cj) < C27_Width(ci)}

\* C27: a merge of glyph i with an adjacent glyph j decoded '' or '1' is
\* scheduled exactly when the segments 1 and 4 of i are off, the horizontal
\* gap between the column ranges of i and j is smaller than the width of j,
\* and twice the width of j is smaller than the width of i; with neither ''
\* nor '1' among the decode results the coordinate list is returned
\* unchanged.
C27_Scheduled ==
    bars.pc \in {"merge", "done"} =>
        IF \E k \in 1..Len(bars.res) : bars.res[k] \in {"", "1"}
        THEN {bars.pops0[k] : k \in 1..Len(bars.pops0)} = C27_ByColumns
        ELSE bars.st = "value" /\ bars.out = bars.coordinates0

\* C28: every box produced by a merge encloses both boxes it was merged
\* from, rows from the smaller row start to the larger row end and columns
\* from the smaller column start to the larger column end, and the list
\* stays in left-to-right order.
C28_Encloses ==
    /\ \A k \in 1..Len(bars.merges) :
           LET m == bars.merges[k]
           IN  m.box = <<Min2(m.main[1], m.con[1]), Max2(m.main[2], m.con[2]),
                         Min2(m.main[3], m.con[3]), Max2(m.main[4], m.con[4])>>
    /\ \A k \in 1..(Len(bars.coordinates) - 1) :
           bars.coordinates[k][3] <= bars.coordinates[k + 1][3]


-----------------------------------------------------------------------------
(* Display.set_ratio and Display.get_corners_from_ratio.  The shape of a
   frame is (rows, columns), as numpy gives it; a ratio x / size is kept as
   the pair of x and size, and round(ratio * size2) is the rounding of the
   exact quotient, from which the float product differs by far less than
   one half. *)

Shapes(n) == (1..n) \X (1..n)

\* an upright quadrilateral on the pixels of a frame: w counts columns, h rows
Inside(shape) ==
    {Corners(x0, y0, x1, y0, x0, y1, x1, y1) :
        x0 \in 0..(shape[2] - 1), x1 \in 0..(shape[2] - 1),
        y0 \in 0..(shape[1] - 1), y1 \in 0..(shape[1] - 1)}

CornerFields == {"TLw", "TLh", "TRw", "TRh", "BLw", "BLh", "BRw", "BRh"}

\* w,h,*other = original_image.shape; size = {'w':w, 'h':h}; size[f[-1]]
Size(shape, f) ==
    IF f \in {"TLw", "TRw", "BLw", "BRw"} THEN shape[1] ELSE shape[2]

\* Display.set_ratio: corners_ratio
SetRatio(shape, c) ==
    [f \in CornerFields |-> [n |-> c[f], d |-> Size(shape, f)]]

\* Display.get_corners_from_ratio
GetCornersFromRatio(shape, corners_ratio) ==
    [f \in CornerFields |->
        PyRound(corners_ratio[f].n * Size(shape, f), corners_ratio[f].d)]

\* Corners._position_type
PositionType(c) ==
    IF \A f \in CornerFields : 0 <= c[f].n /\ c[f].n <= c[f].d
    THEN "ratio" ELSE "abs"

InitDisp ==
    /\ \E shape \in Shapes(MaxSide) :
           \E c \in Inside(shape) :
               disp = [NoDisplay EXCEPT !.pc = "new", !.shape = shape, !.corners = c]
    /\ GeomIdle
    /\ DecIdle
    /\ SegIdle
    /\ ValIdle
    /\ ArucoIdle
    /\ RotIdle
    /\ VidIdle
    /\ BatIdle
    /\ BarsIdle

\* Display.set_ratio(original_image, corners)
DispSetRatio ==
    /\ disp.pc = "new"
    /\ disp' = [disp EXCEPT !.pc = "set",
                            !.corners_ratio = SetRatio(disp.shape, disp.corners)]
    /\ UNCHANGED othersDisp

\* Display.get_corners_from_ratio(original_image), on any frame
DispGetCornersFromRatio ==
    \E shape2 \in Shapes(MaxSide) :
        /\ disp.pc = "set"
        /\ disp' = [disp EXCEPT !.pc = "got", !.shape2 = shape2,
                                !.out = GetCornersFromRatio(shape2, disp.corners_ratio)]
        /\ UNCHANGED othersDisp

NextDisp == DispSetRatio \/ DispGetCornersFromRatio

SpecDisp == InitDisp /\ [][NextDisp]_vars

\* C29: set_ratio followed by get_corners_from_ratio on a frame of the same
\* shape returns the original absolute corners, and every stored ratio
\* coordinate lies in [0, 1], so that _position_type reports 'ratio' for it.
C29_RoundTrip ==
    (disp.pc = "got" /\ disp.shape2 = disp.shape) =>
        /\ disp.out = disp.corners
        /\ \A f \in CornerFields :
               /\ 0 <= disp.corners_ratio[f].n
               /\ disp.corners_ratio[f].n <= disp.corners_ratio[f].d
        /\ PositionType(disp.corners_ratio) = "ratio"

=============================================================================
